---- MODULE Spec2Model ----
(***************************************************************************)
(* Model of the Moodle Mobile 2 session layer: $mmWS.call, $mmSitesManager *)
(* (www/core/lib/ws.js) and the SSO launch handler of mm.core.login.       *)
(*                                                                         *)
(* JavaScript strings are sequences of atoms (one-character strings, or a  *)
(* multi-character atom where the code never looks inside it).  Promises   *)
(* are modelled by the operations in flight: an asynchronous read of a     *)
(* store is issued by one step, performed by a later step and delivered to *)
(* its callback by a third one, so that other handlers may run in between. *)
(***************************************************************************)
EXTENDS Integers, Sequences, FiniteSets, TLC

\* ------------------------------------------------------------------------
\* Bounds
\* ------------------------------------------------------------------------

\* Number of operations that may be in flight at the same time.
MaxInFlight == 1

\* Nesting depth of the containers inside the arguments object of $mmWS.call.
MaxDepth == 1

\* ------------------------------------------------------------------------
\* Strings
\* ------------------------------------------------------------------------

\* The JavaScript value undefined (and what it becomes in a concatenation).
Undefined == <<"undefined">>

Https == <<"h", "t", "t", "p", "s", ":", "/", "/">>

Http == <<"h", "t", "t", "p", ":", "/", "/">>

\* String.prototype.indexOf: zero-based index of the first occurrence, or -1.
IndexOf(s, pat) ==
    LET hits == {i \in 0..(Len(s) - Len(pat)) : SubSeq(s, i + 1, i + Len(pat)) = pat}
    IN  IF hits = {} THEN -1
        ELSE CHOOSE i \in hits : \A j \in hits : i <= j

\* String.prototype.replace with a string pattern: first occurrence only.
Replace(s, pat, rep) ==
    LET i == IndexOf(s, pat)
    IN  IF i = -1 THEN s
        ELSE SubSeq(s, 1, i) \o rep \o SubSeq(s, i + Len(pat) + 1, Len(s))

\* md5.createHash: the digest is a string that determines its input.
createHash(s) == <<"md5(">> \o s \o <<")">>

\* ------------------------------------------------------------------------
\* Input domains
\* ------------------------------------------------------------------------

Host == <<"m">>

SiteURLs == {Https \o Host, Http \o Host}

Usernames == {<<"u">>, <<"v">>}

\* The (siteurl, token) pairs newSite is called with.
NewSiteArgs ==
    { <<Https \o Host, <<"t1">>>>, <<Http \o Host, <<"t2">>>> }

ComponentStrings ==
    <<"c", "o", "m", "p", "o", "n", "e", "n", "t", "_", "s", "t", "r", "i", "n", "g", "s">>

\* core_get_component_strings
FnCoreGetComponentStrings == <<"c", "o", "r", "e", "_", "g", "e", "t", "_">> \o ComponentStrings

\* local_component_strings_get: the needle in the middle of a name.
FnLocalStringsGet ==
    <<"l", "o", "c", "a", "l", "_">> \o ComponentStrings \o <<"_", "g", "e", "t">>

\* core_get_component_string: one character short.
FnCoreGetComponentString ==
    <<"c", "o", "r", "e", "_", "g", "e", "t", "_">> \o SubSeq(ComponentStrings, 1, 16)

\* core_get_strings
FnCoreGetStrings ==
    <<"c", "o", "r", "e", "_", "g", "e", "t", "_", "s", "t", "r", "i", "n", "g", "s">>

\* What core_webservice_get_site_info may answer (username, functions and
\* release of infos).  Sites with the required function:
ValidInfos ==
    { [username |-> <<"u">>, release |-> <<"2.4">>,
       functions |-> <<[name |-> FnCoreGetStrings], [name |-> FnCoreGetComponentStrings]>>],
      [username |-> <<"v">>, release |-> <<"2.9">>,
       functions |-> <<[name |-> FnLocalStringsGet]>>] }

\* Sites without it, whatever their release.
InvalidInfos ==
    { [username |-> <<"u">>, release |-> <<"2.9">>,
       functions |-> <<[name |-> FnCoreGetStrings], [name |-> FnCoreGetComponentString]>>],
      [username |-> <<"u">>, release |-> <<"2.4">>, functions |-> <<>>] }

Infos == ValidInfos \cup InvalidInfos

\* Two sites whose URLs differ by the last character of the host, and the
\* tokens they issue.
IdentityArgs ==
    {<<Https \o <<"m">>, <<"t1">>>>, <<Https \o <<"m">>, <<"t2">>>>,
     <<Https \o <<"m", "a">>, <<"t1">>>>}

\* What such sites report about a user: two users, one of them at two releases.
IdentityInfos ==
    {[username |-> n[1], release |-> n[2],
      functions |-> <<[name |-> FnCoreGetStrings], [name |-> FnCoreGetComponentStrings]>>] :
        n \in {<<<<"u">>, <<"2.4">>>>, <<<<"u">>, <<"2.9">>>>, <<<<"a", "u">>, <<"2.4">>>>}}

\* Errors with which the site-info fetch may fail.
FetchErrors == {"mm.core.cannotconnect"}

\* ------------------------------------------------------------------------
\* JavaScript values
\* ------------------------------------------------------------------------

\* A value that is not a container: undefined, null, a boolean, a number, a
\* string.
Leaf(t, n, b, str) == [t |-> t, n |-> n, b |-> b, s |-> str, kids |-> <<>>]

\* An array or an object: its enumerable properties in the order of for-in,
\* each a key and a value; the keys of an array are its indices.
Container(t, kids) == [t |-> t, n |-> 0, b |-> FALSE, s |-> <<>>, kids |-> kids]

Null == Leaf("null", 0, FALSE, <<>>)

Boolean(b) == Leaf("boolean", 0, b, <<>>)

Number(n) == Leaf("number", n, FALSE, <<>>)

String(str) == Leaf("string", 0, FALSE, str)

\* angular.isArray
isArray(value) == value.t = "array"

\* angular.isObject: not null and of type object.
isObject(value) == value.t \in {"array", "object"}

\* The decimal digit of a number below ten.
Digit(d) == <<"0", "1", "2", "3", "4", "5", "6", "7", "8", "9">>[d + 1]

RECURSIVE NumberToString(_)
\* Number.prototype.toString of an integer.
NumberToString(n) ==
    IF n < 0 THEN <<"-">> \o NumberToString(0 - n)
    ELSE IF n < 10 THEN <<Digit(n)>>
    ELSE NumberToString(n \div 10) \o <<Digit(n % 10)>>

\* value + '' of a value that is not a container.
toString(value) ==
    CASE value.t = "string" -> value.s
      [] value.t = "number" -> NumberToString(value.n)
      [] value.t = "boolean" -> IF value.b THEN <<"t", "r", "u", "e">>
                                ELSE <<"f", "a", "l", "s", "e">>
      [] value.t = "null" -> <<"n", "u", "l", "l">>
      [] OTHER -> <<"u", "n", "d", "e", "f", "i", "n", "e", "d">>

\* The properties for-in enumerates: those of a container, the characters of
\* a string by index, none of another value.
Enumerate(value) ==
    IF isObject(value) THEN value.kids
    ELSE IF value.t = "string"
    THEN [i \in 1..Len(value.s) |-> [k |-> NumberToString(i - 1), v |-> String(<<value.s[i]>>)]]
    ELSE <<>>

\* object[key] = value: the property is replaced where it is, or added last.
SetProperty(object, key, value) ==
    IF \E i \in 1..Len(object.kids) : object.kids[i].k = key
    THEN [object EXCEPT !.kids = [i \in 1..Len(object.kids) |->
                                     IF object.kids[i].k = key
                                     THEN [k |-> key, v |-> value]
                                     ELSE object.kids[i]]]
    ELSE [object EXCEPT !.kids = Append(@, [k |-> key, v |-> value])]

\* The values in the arguments that are not containers.
Leaves == {Number(12), Boolean(TRUE), Null, String(<<"a">>)}

\* The keys of the arguments object when it is an object and when it is an
\* array, in the order of insertion.
KeyLists == {<<>>, <<<<"k">>>>, <<<<"j">>>>, <<<<"k">>, <<"j">>>>}

IndexLists == {<<>>, <<<<"0">>>>, <<<<"0">>, <<"1">>>>}

\* The keys of the objects and of the arrays nested in the arguments object.
NestedKeyLists == {<<>>, <<<<"k">>>>, <<<<"j">>>>}

NestedIndexLists == {<<>>, <<<<"0">>>>}

\* The containers of a type with keys among keyLists and properties among
\* values.
Containers(t, keyLists, values) ==
    UNION {{Container(t, [i \in 1..Len(keys) |-> [k |-> keys[i], v |-> f[i]]]) :
               f \in [1..Len(keys) -> values]} : keys \in keyLists}

RECURSIVE Values(_)
\* The values with containers nested up to a depth.
Values(depth) ==
    IF depth = 0 THEN Leaves
    ELSE LET inner == Values(depth - 1)
         IN  inner \cup Containers("array", NestedIndexLists, inner)
                   \cup Containers("object", NestedKeyLists, inner)

\* The arguments objects $mmWS.call is called with, with containers nested
\* up to a depth.
Arguments(depth) ==
    Containers("array", IndexLists, Values(depth))
        \cup Containers("object", KeyLists, Values(depth))

\* ------------------------------------------------------------------------
\* State
\* ------------------------------------------------------------------------

VARIABLES
    sitesStore,       \* db store 'sites': records keyed by id
    currentStore,     \* db store 'current_site': records keyed by id
    sessionRestored,  \* the flag of $mmSitesManager
    currentSite,      \* $mmSite: the active site, a set of at most one record
    candidateSite,    \* $mmSite: the candidate site, a set of at most one record
    config,           \* $mmConfig: the two launch entries
    ops,              \* the operations in flight, by slot
    event,            \* what the last step did
    hist,             \* history counters
    services,         \* the service each probed site URL takes, kept in memory
    files,            \* the paths of the files in the app's file system
    data,             \* the arguments object the caller of $mmWS.call holds
    ajaxData          \* the body of the last request $mmWS.call posted

storeVars == <<sitesStore, currentStore>>

vars == <<sitesStore, currentStore, sessionRestored, currentSite, candidateSite,
          config, ops, event, hist, services, files, data, ajaxData>>

Slots == 1..MaxInFlight

\* A slot without an operation; the fields every operation record has.
Idle ==
    [op |-> "idle", pc |-> "", siteurl |-> <<>>, token |-> <<>>, siteid |-> <<>>,
     params |-> <<>>, passport |-> <<>>, got |-> {}, via |-> "", first |-> FALSE,
     responseExpected |-> FALSE, username |-> <<>>, password |-> <<>>,
     service |-> <<>>, protocol |-> <<>>, retry |-> FALSE, sent |-> <<>>,
     fileurl |-> <<>>, course |-> <<>>, path |-> <<>>, downloadURL |-> <<>>]

\* The description of a step.
NoEvent ==
    [op |-> "", what |-> "", error |-> "", via |-> "", swapped |-> FALSE, first |-> FALSE,
     had |-> FALSE, result |-> <<>>, code |-> -1, protocol |-> <<>>, retry |-> FALSE,
     sent |-> 0]

\* A request handed to $http.
Request(method, url, username, password, service) ==
    [method |-> method, url |-> url, username |-> username, password |-> password,
     service |-> service]

FreeSlots == {s \in Slots : ops[s].op = "idle"}

\* The slot a new operation takes.
NewSlot == CHOOSE s \in FreeSlots : \A t \in FreeSlots : s <= t

\* History counters count none, one, many.
Bump(n) == IF n = "none" THEN "one" ELSE "many"

\* ------------------------------------------------------------------------
\* Collaborators: the db ($mmApp.getDB) and $mmSite
\* ------------------------------------------------------------------------

\* The key of the only record of the current-site store.
CurrentSiteKey == 1

\* db.insert: an upsert on the store's key path 'id'.
dbInsert(store, rec) == {r \in store : r.id # rec.id} \cup {rec}

\* db.remove
dbRemove(store, key) == {r \in store : r.id # key}

\* db.get: the record of that key; none makes the promise reject.
dbGet(store, key) == {r \in store : r.id = key}

\* $mmSite.setSite
setSite(siteid, siteurl, token, infos) ==
    {[id |-> siteid, siteurl |-> siteurl, token |-> token, infos |-> infos]}

\* $mmSite.setCandidateSite
setCandidateSite(siteurl, token) == {[siteurl |-> siteurl, token |-> token]}

\* ------------------------------------------------------------------------
\* $mmSitesManager
\* ------------------------------------------------------------------------

isValidMoodleVersion_NoGate(sitefunctions) == TRUE

\* isValidMoodleVersion: some function name contains component_strings.
isValidMoodleVersion(sitefunctions) ==
    \E i \in 1..Len(sitefunctions) :
        IndexOf(sitefunctions[i].name, ComponentStrings) > -1

\* addSite: the sites store after db.insert of the record.
addSite(id, siteurl, token, infos) ==
    dbInsert(sitesStore, [id |-> id, siteurl |-> siteurl, token |-> token, infos |-> infos])

login_KeepFirst(siteid) ==
    IF currentStore = {} THEN {[id |-> CurrentSiteKey, siteid |-> siteid]} ELSE currentStore

\* login: the current-site store after db.insert of {id: 1, siteid: siteid}.
login(siteid) == dbInsert(currentStore, [id |-> CurrentSiteKey, siteid |-> siteid])

\* The ids newSite can give to a site.
SiteIds == {createHash(u \o n) : u \in SiteURLs, n \in Usernames}

\* The operation record of a running newSite.
NewSiteOp(siteurl, token, via) ==
    [Idle EXCEPT !.op = "newSite", !.pc = "fetch", !.siteurl = siteurl,
                 !.token = token, !.via = via]

\* newSite, up to the call of fetchSiteInfo.
NewSite(siteurl, token) ==
    /\ FreeSlots # {}
    /\ ops' = [ops EXCEPT ![NewSlot] = NewSiteOp(siteurl, token, "user")]
    /\ candidateSite' = setCandidateSite(siteurl, token)
    /\ event' = [NoEvent EXCEPT !.op = "newSite", !.what = "start", !.via = "user"]
    /\ UNCHANGED <<data, ajaxData, files, services, sitesStore, currentStore, sessionRestored, currentSite, config, hist>>

\* newSite: fetchSiteInfo resolved with infos.
NewSiteInfo(s, infos) ==
    /\ ops[s].op = "newSite" /\ ops[s].pc = "fetch"
    /\ LET siteurl == ops[s].siteurl
           token == ops[s].token
           siteid == createHash(siteurl \o infos.username)
       IN  IF isValidMoodleVersion(infos.functions)
           THEN /\ sitesStore' = addSite(siteid, siteurl, token, infos)
                /\ currentSite' = setSite(siteid, siteurl, token, infos)
                /\ currentStore' = login(siteid)
                /\ candidateSite' = candidateSite
                /\ event' = [NoEvent EXCEPT !.op = "newSite", !.what = "resolved", !.via = ops[s].via,
                                            !.had = (currentStore # {})]
           ELSE /\ candidateSite' = {}
                /\ event' = [NoEvent EXCEPT !.op = "newSite", !.what = "rejected", !.error = "mm.login.invalidmoodleversion", !.via = ops[s].via]
                /\ UNCHANGED <<data, ajaxData, files, services, sitesStore, currentStore, currentSite>>
    /\ ops' = [ops EXCEPT ![s] = Idle]
    /\ UNCHANGED <<data, ajaxData, files, services, sessionRestored, config, hist>>

NewSiteFetchFailed_Persist(s, error) ==
    /\ ops[s].op = "newSite" /\ ops[s].pc = "fetch"
    /\ candidateSite' = {}
    /\ sitesStore' = addSite(createHash(ops[s].siteurl), ops[s].siteurl, ops[s].token,
                             [username |-> <<>>, release |-> <<>>, functions |-> <<>>])
    /\ event' = [NoEvent EXCEPT !.op = "newSite", !.what = "rejected", !.error = error, !.via = ops[s].via]
    /\ ops' = [ops EXCEPT ![s] = Idle]
    /\ UNCHANGED <<data, ajaxData, files, services, currentStore, sessionRestored, currentSite, config, hist>>

\* newSite: fetchSiteInfo rejected.
NewSiteFetchFailed(s, error) ==
    /\ ops[s].op = "newSite" /\ ops[s].pc = "fetch"
    /\ candidateSite' = {}
    /\ event' = [NoEvent EXCEPT !.op = "newSite", !.what = "rejected", !.error = error, !.via = ops[s].via]
    /\ ops' = [ops EXCEPT ![s] = Idle]
    /\ UNCHANGED <<data, ajaxData, files, services, sitesStore, currentStore, sessionRestored, currentSite, config, hist>>

\* loadSite, up to the call of db.get.
LoadSite(siteid) ==
    /\ FreeSlots # {}
    /\ ops' = [ops EXCEPT ![NewSlot] =
                  [Idle EXCEPT !.op = "loadSite", !.pc = "get", !.siteid = siteid]]
    /\ event' = [NoEvent EXCEPT !.op = "loadSite", !.what = "start"]
    /\ UNCHANGED <<data, ajaxData, files, services, sitesStore, currentStore, sessionRestored, currentSite, candidateSite,
                   config, hist>>

\* The db performs a pending db.get.
DbRead(s) ==
    /\ ops[s].op \in {"loadSite", "restoreSession", "getMoodleFilePath"}
    /\ \/ /\ ops[s].pc = "get"
          /\ ops' = [ops EXCEPT ![s].pc = "got", ![s].got = dbGet(sitesStore, ops[s].siteid)]
       \/ /\ ops[s].pc = "getCurrent"
          /\ ops' = [ops EXCEPT ![s].pc = "gotCurrent",
                                ![s].got = dbGet(currentStore, CurrentSiteKey)]
    /\ event' = [NoEvent EXCEPT !.op = "db", !.what = "read"]
    /\ UNCHANGED <<data, ajaxData, files, services, sitesStore, currentStore, sessionRestored, currentSite, candidateSite,
                   config, hist>>

LoadSiteGot_NoToken(s) ==
    /\ ops[s].op \in {"loadSite", "restoreSession"} /\ ops[s].pc = "got"
    /\ IF ops[s].got # {}
       THEN LET site == CHOOSE r \in ops[s].got : TRUE
            IN  /\ currentSite' = setSite(ops[s].siteid, site.siteurl, <<>>, site.infos)
                /\ currentStore' = login(ops[s].siteid)
                /\ event' = [NoEvent EXCEPT !.op = ops[s].op, !.what = "resolved",
                                            !.had = (currentStore # {})]
       ELSE /\ event' = [NoEvent EXCEPT !.op = ops[s].op, !.what = "rejected", !.error = "db.get"]
            /\ UNCHANGED <<data, ajaxData, files, services, currentSite, currentStore>>
    /\ ops' = [ops EXCEPT ![s] = Idle]
    /\ UNCHANGED <<data, ajaxData, files, services, sitesStore, sessionRestored, candidateSite, config, hist>>

\* loadSite: the callback of db.get, or its rejection.
LoadSiteGot(s) ==
    /\ ops[s].op \in {"loadSite", "restoreSession"} /\ ops[s].pc = "got"
    /\ IF ops[s].got # {}
       THEN LET site == CHOOSE r \in ops[s].got : TRUE
            IN  /\ currentSite' = setSite(ops[s].siteid, site.siteurl, site.token, site.infos)
                /\ currentStore' = login(ops[s].siteid)
                /\ event' = [NoEvent EXCEPT !.op = ops[s].op, !.what = "resolved",
                                            !.had = (currentStore # {})]
       ELSE /\ event' = [NoEvent EXCEPT !.op = ops[s].op, !.what = "rejected", !.error = "db.get"]
            /\ UNCHANGED <<data, ajaxData, files, services, currentSite, currentStore>>
    /\ ops' = [ops EXCEPT ![s] = Idle]
    /\ UNCHANGED <<data, ajaxData, files, services, sitesStore, sessionRestored, candidateSite, config, hist>>

Logout_DropSite ==
    /\ currentSite' = {}
    /\ currentStore' = dbRemove(currentStore, CurrentSiteKey)
    /\ sitesStore' = {r \in sitesStore : \A c \in currentStore : r.id # c.siteid}
    /\ event' = [NoEvent EXCEPT !.op = "logout", !.what = "resolved",
                                !.had = (currentStore # {})]
    /\ UNCHANGED <<data, ajaxData, files, services, sessionRestored, candidateSite, config, ops, hist>>

\* logout
Logout ==
    /\ currentSite' = {}
    /\ currentStore' = dbRemove(currentStore, CurrentSiteKey)
    /\ event' = [NoEvent EXCEPT !.op = "logout", !.what = "resolved",
                                !.had = (currentStore # {})]
    /\ UNCHANGED <<data, ajaxData, files, services, sitesStore, sessionRestored, candidateSite, config, ops, hist>>

RestoreSession_NoFlag ==
    /\ FreeSlots # {}
    /\ sessionRestored' = sessionRestored
    /\ ops' = [ops EXCEPT ![NewSlot] =
                  [Idle EXCEPT !.op = "restoreSession", !.pc = "getCurrent"]]
    /\ hist' = [hist EXCEPT !.pointerGets = Bump(@)]
    /\ event' = [NoEvent EXCEPT !.op = "restoreSession", !.what = "start"]
    /\ UNCHANGED <<data, ajaxData, files, services, sitesStore, currentStore, currentSite, candidateSite, config>>

\* restoreSession, up to its return.
RestoreSession ==
    IF sessionRestored
    THEN /\ event' = [NoEvent EXCEPT !.op = "restoreSession", !.what = "rejected"]
         /\ UNCHANGED <<data, ajaxData, files, services, sitesStore, currentStore, sessionRestored, currentSite,
                        candidateSite, config, ops, hist>>
    ELSE /\ FreeSlots # {}
         /\ sessionRestored' = TRUE
         /\ ops' = [ops EXCEPT ![NewSlot] =
                       [Idle EXCEPT !.op = "restoreSession", !.pc = "getCurrent"]]
         /\ hist' = [hist EXCEPT !.pointerGets = Bump(@)]
         /\ event' = [NoEvent EXCEPT !.op = "restoreSession", !.what = "start"]
         /\ UNCHANGED <<data, ajaxData, files, services, sitesStore, currentStore, currentSite, candidateSite, config>>

\* restoreSession: the callback of db.get on the current-site store, or its rejection.
RestoreSessionGot(s) ==
    /\ ops[s].op = "restoreSession" /\ ops[s].pc = "gotCurrent"
    /\ IF ops[s].got # {}
       THEN LET current_site == CHOOSE r \in ops[s].got : TRUE
            IN  /\ ops' = [ops EXCEPT ![s].pc = "get", ![s].siteid = current_site.siteid,
                                      ![s].got = {}]
                /\ event' = [NoEvent EXCEPT !.op = "loadSite", !.what = "start", !.via = "restoreSession"]
       ELSE /\ ops' = [ops EXCEPT ![s] = Idle]
            /\ event' = [NoEvent EXCEPT !.op = "restoreSession", !.what = "rejected", !.error = "db.get"]
    /\ UNCHANGED <<data, ajaxData, files, services, sitesStore, currentStore, sessionRestored, currentSite, candidateSite,
                   config, hist>>

\* ------------------------------------------------------------------------
\* mm.core.login: the SSO launch handler
\* ------------------------------------------------------------------------

mmLoginLaunchSiteURL == "mmLoginLaunchSiteURL"

mmLoginLaunchPassport == "mmLoginLaunchPassport"

ssoScheme == <<"moodlemobile://token=">>

\* The separator of signature:::token.
Separator == <<":::">>

Passports == {<<"7">>, <<"8">>}

\* window.btoa, as the site applies it to the payload.
btoa(s) == <<"b64(">> \o s \o <<")">>

\* Whether window.atob accepts the text (it throws otherwise).
IsBase64(x) == Len(x) >= 2 /\ x[1] = "b64(" /\ x[Len(x)] = ")"

\* window.atob
atob(x) == SubSeq(x, 2, Len(x) - 1)

RECURSIVE Split(_, _)
\* String.prototype.split with a string separator.
Split(s, sep) ==
    LET i == IndexOf(s, sep)
    IN  IF i = -1 THEN <<s>>
        ELSE <<SubSeq(s, 1, i)>> \o Split(SubSeq(s, i + Len(sep) + 1, Len(s)), sep)

\* params[i] of a JavaScript array: undefined beyond its end.
Param(params, i) == IF i + 1 <= Len(params) THEN params[i + 1] ELSE Undefined

\* The signatures a callback may carry.
Signatures ==
    {createHash(u \o <<"7">>) : u \in SiteURLs} \cup {createHash(Https \o Host \o <<"8">>), <<"x">>}

\* The decoded payloads a callback may carry: with a token, with an empty
\* token, and without the separator.
Payloads ==
    {sig \o Separator \o <<"t1">> : sig \in Signatures}
        \cup {createHash(Https \o Host \o <<"7">>) \o Separator}
        \cup {createHash(Https \o Host \o <<"7">>)}

\* The URLs with which the app may be opened.
LaunchURLs ==
    {ssoScheme \o btoa(p) : p \in Payloads}
        \cup {ssoScheme \o <<"%">>, <<"moodlemobile://other">>}

\* $mmConfig without the two launch entries.
NoLaunchState == [k \in {mmLoginLaunchSiteURL, mmLoginLaunchPassport} |-> {}]

validateSignature_NoCheck(launchSiteURL, passport, params) ==
    [ok |-> TRUE, siteurl |-> launchSiteURL, token |-> Param(params, 1)]

validateSignature_NoSwap(launchSiteURL, passport, params) ==
    [ok |-> createHash(launchSiteURL \o passport) = Param(params, 0),
     siteurl |-> launchSiteURL, token |-> Param(params, 1)]

validateSignature_FirstURL(launchSiteURL, passport, params) ==
    LET first == createHash(launchSiteURL \o passport)
        other == IF IndexOf(launchSiteURL, Https) # -1
                 THEN Replace(launchSiteURL, Https, Http)
                 ELSE Replace(launchSiteURL, Http, Https)
    IN  [ok |-> Param(params, 0) \in {first, createHash(other \o passport)},
         siteurl |-> launchSiteURL, token |-> Param(params, 1)]

\* validateBrowserSSOLogin, the validation of the signature: whether it is
\* accepted, and the site data returned when it is.
validateSignature(launchSiteURL, passport, params) ==
    LET first == createHash(launchSiteURL \o passport)
        url == IF first # Param(params, 0)
               THEN IF IndexOf(launchSiteURL, Https) # -1
                    THEN Replace(launchSiteURL, Https, Http)
                    ELSE Replace(launchSiteURL, Http, Https)
               ELSE launchSiteURL
        signature == IF first # Param(params, 0) THEN createHash(url \o passport) ELSE first
    IN  [ok |-> signature = Param(params, 0), siteurl |-> url, token |-> Param(params, 1)]

\* The login controllers store the launch URL and the passport before they
\* open the browser.
WriteLaunchState(siteurl, passport) ==
    /\ config' = [config EXCEPT ![mmLoginLaunchSiteURL] = {siteurl},
                                ![mmLoginLaunchPassport] = {passport}]
    /\ hist' = [hist EXCEPT !.handled = FALSE, !.accepted = "none"]
    /\ ops' = [s \in Slots |-> IF ops[s].op = "sso" THEN [ops[s] EXCEPT !.first = TRUE]
                              ELSE ops[s]]
    /\ event' = [NoEvent EXCEPT !.op = "launch", !.what = "written"]
    /\ UNCHANGED <<data, ajaxData, files, services, sitesStore, currentStore, sessionRestored, currentSite, candidateSite>>

\* The mmLoginSSO handler, up to its return.
SSOCallback(url) ==
    IF IndexOf(url, ssoScheme) = -1
    THEN /\ event' = [NoEvent EXCEPT !.op = "sso", !.what = "ignored"]
         /\ UNCHANGED <<data, ajaxData, files, services, sitesStore, currentStore, sessionRestored, currentSite,
                        candidateSite, config, ops, hist>>
    ELSE LET encoded == Replace(url, ssoScheme, <<>>)
         IN  IF ~IsBase64(encoded)
             THEN /\ event' = [NoEvent EXCEPT !.op = "sso", !.what = "decodeerror", !.first = ~hist.handled]
                  /\ hist' = [hist EXCEPT !.handled = TRUE]
                  /\ UNCHANGED <<data, ajaxData, files, services, sitesStore, currentStore, sessionRestored, currentSite,
                                 candidateSite, config, ops>>
             ELSE /\ FreeSlots # {}
                  /\ ops' = [ops EXCEPT ![NewSlot] =
                                [Idle EXCEPT !.op = "sso", !.pc = "getURL",
                                             !.params = Split(atob(encoded), Separator),
                                             !.first = ~hist.handled]]
                  /\ hist' = [hist EXCEPT !.handled = TRUE]
                  /\ event' = [NoEvent EXCEPT !.op = "sso", !.what = "start"]
                  /\ UNCHANGED <<data, ajaxData, files, services, sitesStore, currentStore, sessionRestored, currentSite,
                                 candidateSite, config>>

\* $mmConfig performs a pending get.
ConfigRead(s) ==
    /\ ops[s].op = "sso"
    /\ \/ /\ ops[s].pc = "getURL"
          /\ ops' = IF config[mmLoginLaunchSiteURL] = {}
                    THEN [ops EXCEPT ![s].pc = "failed"]
                    ELSE [ops EXCEPT ![s].pc = "gotURL",
                                     ![s].siteurl = CHOOSE v \in config[mmLoginLaunchSiteURL] : TRUE]
       \/ /\ ops[s].pc = "getPassport"
          /\ ops' = IF config[mmLoginLaunchPassport] = {}
                    THEN [ops EXCEPT ![s].pc = "failed"]
                    ELSE [ops EXCEPT ![s].pc = "gotPassport",
                                     ![s].passport = CHOOSE v \in config[mmLoginLaunchPassport] : TRUE]
    /\ event' = [NoEvent EXCEPT !.op = "config", !.what = "read"]
    /\ UNCHANGED <<data, ajaxData, files, services, sitesStore, currentStore, sessionRestored, currentSite, candidateSite,
                   config, hist>>

\* validateBrowserSSOLogin: the callback of the get of the launch URL.
SSOGotURL(s) ==
    /\ ops[s].op = "sso" /\ ops[s].pc = "gotURL"
    /\ ops' = [ops EXCEPT ![s].pc = "getPassport"]
    /\ event' = [NoEvent EXCEPT !.op = "sso", !.what = "getPassport"]
    /\ UNCHANGED <<data, ajaxData, files, services, sitesStore, currentStore, sessionRestored, currentSite, candidateSite,
                   config, hist>>

\* The handler's error callback after a get that rejected.
SSOGetFailed(s) ==
    /\ ops[s].op = "sso" /\ ops[s].pc = "failed"
    /\ ops' = [ops EXCEPT ![s] = Idle]
    /\ event' = [NoEvent EXCEPT !.op = "sso", !.what = "rejected", !.error = "config.get", !.first = ops[s].first]
    /\ UNCHANGED <<data, ajaxData, files, services, sitesStore, currentStore, sessionRestored, currentSite, candidateSite,
                   config, hist>>

\* validateBrowserSSOLogin: the callback of the get of the passport, and the
\* handler's callbacks on its result.
SSOGotPassport(s) ==
    /\ ops[s].op = "sso" /\ ops[s].pc = "gotPassport"
    /\ config' = [config EXCEPT ![mmLoginLaunchSiteURL] = {}, ![mmLoginLaunchPassport] = {}]
    /\ LET sitedata == validateSignature(ops[s].siteurl, ops[s].passport, ops[s].params)
       IN  IF sitedata.ok
           THEN /\ ops' = [ops EXCEPT ![s] = NewSiteOp(sitedata.siteurl, sitedata.token, "sso")]
                /\ candidateSite' = setCandidateSite(sitedata.siteurl, sitedata.token)
                /\ hist' = [hist EXCEPT !.accepted = Bump(@)]
                /\ event' = [NoEvent EXCEPT !.op = "sso", !.what = "accepted", !.first = ops[s].first, !.swapped = (sitedata.siteurl # ops[s].siteurl)]
           ELSE /\ ops' = [ops EXCEPT ![s] = Idle]
                /\ event' = [NoEvent EXCEPT !.op = "sso", !.what = "rejected", !.error = "mm.core.unexpectederror", !.first = ops[s].first]
                /\ UNCHANGED <<data, ajaxData, files, services, candidateSite, hist>>
    /\ UNCHANGED <<data, ajaxData, files, services, sitesStore, currentStore, sessionRestored, currentSite>>

\* ------------------------------------------------------------------------
\* $mmWS.call
\* ------------------------------------------------------------------------

\* The preSets a caller may pass: none, without token, without URL, complete.
PreSets ==
    {[defined |-> FALSE, wstoken |-> Undefined, siteurl |-> Undefined,
      responseExpected |-> FALSE]}
        \cup [defined : {TRUE}, wstoken : {Undefined, <<"t1">>},
              siteurl : {Undefined, Https \o Host}, responseExpected : BOOLEAN]

\* What $cordovaNetwork.isOffline() does.
NetworkStates == {"online", "offline", "throws"}

\* The bodies the server may answer with (data.data): an empty one, an
\* exception with its error code, debug diagnostics, plain data.
ResponseBodies ==
    [empty : {TRUE}, exception : {FALSE}, errorcode : {""}, debuginfo : {FALSE}]
        \cup [empty : {FALSE}, exception : {TRUE},
              errorcode : {"invalidtoken", "accessexception", "invalidparameter"},
              debuginfo : BOOLEAN]
        \cup [empty : {FALSE}, exception : {FALSE}, errorcode : {""}, debuginfo : BOOLEAN]

\* The path of the REST server of a site.
RestServer == <<"/webservice/rest/server.php?moodlewsrestformat=json">>

\* The web service function $mmWS.call is called for.
Method == <<"core_webservice_get_site_info">>

convertValuesToString_Shallow(value) ==
    LET entries == Enumerate(value)
    IN  Container(IF ~isArray(value) /\ isObject(value) THEN "object" ELSE "array",
                  [i \in 1..Len(entries) |->
                      [k |-> entries[i].k,
                       v |-> IF isObject(entries[i].v)
                             THEN entries[i].v
                             ELSE String(toString(entries[i].v))]])

RECURSIVE convertValuesToString(_)
\* convertValuesToString: a new array, or a new object for an object that is
\* not an array, with every enumerable property of the data: converted in
\* its turn when it is a container, concatenated with '' otherwise.
convertValuesToString(value) ==
    LET entries == Enumerate(value)
    IN  Container(IF ~isArray(value) /\ isObject(value) THEN "object" ELSE "array",
                  [i \in 1..Len(entries) |->
                      [k |-> entries[i].k,
                       v |-> IF isObject(entries[i].v)
                             THEN convertValuesToString(entries[i].v)
                             ELSE String(toString(entries[i].v))]])

\* $mmWS.call: the body of the request: the converted data with the function
\* and the token.
callAjaxData(value, preSets) ==
    SetProperty(SetProperty(convertValuesToString(value), <<"wsfunction">>, String(Method)),
                <<"wstoken">>, String(preSets.wstoken))

callCheck_NoSettingsCheck(preSets, network) ==
    IF network = "offline" THEN "mm.core.networkerrormsg" ELSE ""

callCheck_ThrowsIsOffline(preSets, network) ==
    IF ~preSets.defined \/ preSets.wstoken = Undefined \/ preSets.siteurl = Undefined
    THEN "mm.core.unexpectederror"
    ELSE IF network # "online" THEN "mm.core.networkerrormsg"
    ELSE ""

\* $mmWS.call: the error with which the checks before the request reject,
\* "" when they pass.  An exception of $cordovaNetwork.isOffline() is caught
\* and ignored.
callCheck(preSets, network) ==
    IF ~preSets.defined \/ preSets.wstoken = Undefined \/ preSets.siteurl = Undefined
    THEN "mm.core.unexpectederror"
    ELSE IF network = "offline" THEN "mm.core.networkerrormsg"
    ELSE ""

\* $mmWS.call, up to its return.
Call(preSets, network) ==
    IF callCheck(preSets, network) # ""
    THEN /\ event' = [NoEvent EXCEPT !.op = "call", !.what = "rejected",
                                     !.error = callCheck(preSets, network), !.via = network]
         /\ UNCHANGED <<data, ajaxData, files, services, sitesStore, currentStore, sessionRestored, currentSite,
                        candidateSite, config, ops, hist>>
    ELSE /\ FreeSlots # {}
         /\ ops' = [ops EXCEPT ![NewSlot] =
                       [Idle EXCEPT !.op = "call", !.pc = "post",
                                    !.siteurl = preSets.siteurl, !.token = preSets.wstoken,
                                    !.responseExpected = preSets.responseExpected,
                                    !.sent = <<Request("POST", preSets.siteurl \o RestServer,
                                                       <<>>, <<>>, <<>>)>>]]
         /\ ajaxData' = callAjaxData(data, preSets)
         /\ event' = [NoEvent EXCEPT !.op = "call", !.what = "start", !.via = network]
         /\ UNCHANGED <<data, files, services, sitesStore, currentStore, sessionRestored,
                        currentSite, candidateSite, config, hist>>

\* A body that is an empty object.
BlankObject == [empty |-> FALSE, exception |-> FALSE, errorcode |-> "", debuginfo |-> FALSE]

\* $mmWS.call: the data the success callback goes on with.  The test for an
\* absent response starts with !data, where data is the response object
\* $http hands over, which is never falsy: the blank object is never made.
callData(body, responseExpected) ==
    LET response == [falsy |-> FALSE, data |-> body]
    IN  IF response.falsy /\ response.data.empty /\ ~responseExpected
        THEN BlankObject
        ELSE response.data

callError_OnlyInvalidToken(body) ==
    IF body.empty THEN "mm.core.cannotconnect"
    ELSE IF body.exception
    THEN IF body.errorcode = "invalidtoken"
         THEN "mm.core.lostconnection"
         ELSE "message"
    ELSE IF body.debuginfo THEN "Error. message"
    ELSE ""

\* The error with which $mmWS.call rejects a response body; "" when it resolves.
callError(body) ==
    IF body.empty THEN "mm.core.cannotconnect"
    ELSE IF body.exception
    THEN IF body.errorcode = "invalidtoken" \/ body.errorcode = "accessexception"
         THEN "mm.core.lostconnection"
         ELSE "message"
    ELSE IF body.debuginfo THEN "Error. message"
    ELSE ""

\* $mmWS.call: the success callback of $http.post.
CallResponse(s, body) ==
    /\ ops[s].op = "call" /\ ops[s].pc = "post"
    /\ ops' = [ops EXCEPT ![s] = Idle]
    /\ LET error == callError(callData(body, ops[s].responseExpected))
       IN  event' = [NoEvent EXCEPT !.op = "call",
                                    !.what = IF error = "" THEN "resolved" ELSE "rejected",
                                    !.error = error, !.sent = Len(ops[s].sent)]
    /\ UNCHANGED <<data, ajaxData, files, services, sitesStore, currentStore, sessionRestored, currentSite, candidateSite,
                   config, hist>>

\* $mmWS.call: the error callback of $http.post.
CallFailed(s) ==
    /\ ops[s].op = "call" /\ ops[s].pc = "post"
    /\ ops' = [ops EXCEPT ![s] = Idle]
    /\ event' = [NoEvent EXCEPT !.op = "call", !.what = "rejected",
                                !.error = "mm.core.cannotconnect", !.via = "error",
                                !.sent = Len(ops[s].sent)]
    /\ UNCHANGED <<data, ajaxData, files, services, sitesStore, currentStore, sessionRestored, currentSite, candidateSite,
                   config, hist>>

\* ------------------------------------------------------------------------
\* $mmSitesManager: getUserToken and determineService
\* ------------------------------------------------------------------------

Www == <<"w", "w", "w", ".">>

\* The path of the token endpoint.
LoginToken == <<"/login/token.php">>

\* The value $mmConfig holds for 'wsservice'.
WsService == <<"moodle_mobile_app">>

\* The error code of a site that wants to be reached under its canonical host.
RequireCorrectAccess == <<"requirecorrectaccess">>

\* The credentials a user types: username and password.
Credentials == {<<<<"u">>, <<"pw">>>>, <<<<"v">>, <<"pw2">>>>}

\* What login/token.php may answer: a token, an error with the code that asks
\* for the canonical host, another error, or neither field.
TokenResponses ==
    { [token |-> <<"t1">>, error |-> Undefined, errorcode |-> Undefined],
      [token |-> Undefined, error |-> <<"Use the site's own address">>,
       errorcode |-> RequireCorrectAccess],
      [token |-> Undefined, error |-> <<"Invalid login">>, errorcode |-> <<"invalidlogin">>],
      [token |-> Undefined, error |-> Undefined, errorcode |-> Undefined] }

determineService_OwnScheme(siteurl) ==
    IF siteurl \in DOMAIN services THEN services[siteurl] ELSE Undefined

\* determineService, up to the call of $mmConfig.get: the service kept for the
\* http form of the URL, else the one kept for the https form, else Undefined
\* (the default service is to be read).
determineService(siteurl) ==
    LET http == Replace(siteurl, Https, Http)
        https == Replace(http, Http, Https)
    IN  IF http \in DOMAIN services THEN services[http]
        ELSE IF https \in DOMAIN services THEN services[https]
        ELSE Undefined

\* getUserToken: $http.post of the credentials to the token endpoint.
postCredentials(op) ==
    [op EXCEPT !.pc = "post",
               !.sent = Append(@, Request("POST", op.siteurl \o LoginToken, op.username,
                                          op.password, op.service))]

\* getUserToken, up to the request it waits for: the read of the default
\* service, or the post of the credentials when the service is known.
getUserToken(op, siteurl, username, password, retry) ==
    LET service == determineService(siteurl)
        started == [op EXCEPT !.op = "getUserToken", !.siteurl = siteurl,
                              !.username = username, !.password = password,
                              !.retry = retry, !.service = service]
    IN  IF service # Undefined THEN postCredentials(started)
        ELSE [started EXCEPT !.pc = "getService"]

\* The description of a step that settles getUserToken.
TokenEvent(op, what, error, result) ==
    [NoEvent EXCEPT !.op = "getUserToken", !.what = what, !.error = error,
                    !.result = result, !.retry = op.retry, !.sent = Len(op.sent)]

\* getUserToken is called by the login form.
GetUserToken(siteurl, username, password) ==
    /\ FreeSlots # {}
    /\ ops' = [ops EXCEPT ![NewSlot] = getUserToken(Idle, siteurl, username, password, FALSE)]
    /\ event' = [NoEvent EXCEPT !.op = "getUserToken", !.what = "start"]
    /\ UNCHANGED <<data, ajaxData, files, sitesStore, currentStore, sessionRestored, currentSite, candidateSite,
                   config, hist, services>>

\* determineService: $mmConfig.get('wsservice') resolved or rejected.
GetUserTokenService(s, found) ==
    /\ ops[s].op = "getUserToken" /\ ops[s].pc = "getService"
    /\ IF found
       THEN /\ ops' = [ops EXCEPT ![s] = postCredentials([ops[s] EXCEPT !.service = WsService])]
            /\ event' = [NoEvent EXCEPT !.op = "getUserToken", !.what = "service"]
       ELSE /\ ops' = [ops EXCEPT ![s] = Idle]
            /\ event' = TokenEvent(ops[s], "rejected", "mmConfig.get", <<>>)
    /\ UNCHANGED <<data, ajaxData, files, sitesStore, currentStore, sessionRestored, currentSite, candidateSite,
                   config, hist, services>>

tokenOutcome_AlwaysRetry(response, retry, logindataDefined) ==
    IF response.token # Undefined
    THEN [kind |-> "resolve", error |-> "", value |-> response.token]
    ELSE IF response.error # Undefined
    THEN IF response.errorcode = RequireCorrectAccess
         THEN [kind |-> "retry", error |-> "", value |-> <<>>]
         ELSE [kind |-> "reject", error |-> "response.error", value |-> response.error]
    ELSE [kind |-> "reject", error |-> "mm.login.invalidaccount", value |-> <<>>]

tokenOutcome_RetryInvalidAccount(response, retry, logindataDefined) ==
    IF response.token # Undefined
    THEN [kind |-> "resolve", error |-> "", value |-> response.token]
    ELSE IF response.error # Undefined
    THEN IF ~retry /\ response.errorcode = RequireCorrectAccess
         THEN IF logindataDefined
              THEN [kind |-> "retry", error |-> "", value |-> <<>>]
              ELSE [kind |-> "throw", error |-> "ReferenceError", value |-> <<>>]
         ELSE [kind |-> "reject", error |-> "mm.login.invalidaccount", value |-> <<>>]
    ELSE [kind |-> "reject", error |-> "mm.login.invalidaccount", value |-> <<>>]

tokenOutcome_NeitherUnexpected(response, retry, logindataDefined) ==
    IF response.token # Undefined
    THEN [kind |-> "resolve", error |-> "", value |-> response.token]
    ELSE IF response.error # Undefined
    THEN IF ~retry /\ response.errorcode = RequireCorrectAccess
         THEN IF logindataDefined
              THEN [kind |-> "retry", error |-> "", value |-> <<>>]
              ELSE [kind |-> "throw", error |-> "ReferenceError", value |-> <<>>]
         ELSE [kind |-> "reject", error |-> "response.error", value |-> response.error]
    ELSE [kind |-> "reject", error |-> "mm.core.unexpectederror", value |-> <<>>]

\* getUserToken: what the success callback of the post does with a response.
\* The retry branch assigns to a property of logindata, a name the factory
\* does not declare: the assignment throws a ReferenceError unless a global of
\* that name exists, and then neither the retry nor a settlement follows.
tokenOutcome(response, retry, logindataDefined) ==
    IF response.token # Undefined
    THEN [kind |-> "resolve", error |-> "", value |-> response.token]
    ELSE IF response.error # Undefined
    THEN IF ~retry /\ response.errorcode = RequireCorrectAccess
         THEN IF logindataDefined
              THEN [kind |-> "retry", error |-> "", value |-> <<>>]
              ELSE [kind |-> "throw", error |-> "ReferenceError", value |-> <<>>]
         ELSE [kind |-> "reject", error |-> "response.error", value |-> response.error]
    ELSE [kind |-> "reject", error |-> "mm.login.invalidaccount", value |-> <<>>]

\* getUserToken: the post got a response.
GetUserTokenResponse(s, response, logindataDefined) ==
    /\ ops[s].op = "getUserToken" /\ ops[s].pc = "post"
    /\ LET out == tokenOutcome(response, ops[s].retry, logindataDefined)
           www == Replace(Replace(ops[s].siteurl, Https, Https \o Www), Http, Http \o Www)
       IN  CASE out.kind = "retry" ->
                  /\ ops' = [ops EXCEPT ![s] = getUserToken(ops[s], www, ops[s].username,
                                                            ops[s].password, TRUE)]
                  /\ event' = [NoEvent EXCEPT !.op = "getUserToken", !.what = "retry"]
             [] out.kind = "throw" ->
                  /\ ops' = [ops EXCEPT ![s].pc = "thrown"]
                  /\ event' = [NoEvent EXCEPT !.op = "getUserToken", !.what = "thrown",
                                              !.error = out.error]
             [] out.kind = "resolve" ->
                  /\ ops' = [ops EXCEPT ![s] = Idle]
                  /\ event' = TokenEvent(ops[s], "resolved", "", out.value)
             [] OTHER ->
                  /\ ops' = [ops EXCEPT ![s] = Idle]
                  /\ event' = TokenEvent(ops[s], "rejected", out.error, out.value)
    /\ UNCHANGED <<data, ajaxData, files, sitesStore, currentStore, sessionRestored, currentSite, candidateSite,
                   config, hist, services>>

\* getUserToken: the post failed.
GetUserTokenFailed(s) ==
    /\ ops[s].op = "getUserToken" /\ ops[s].pc = "post"
    /\ ops' = [ops EXCEPT ![s] = Idle]
    /\ event' = TokenEvent(ops[s], "rejected", "mm.core.cannotconnect", <<>>)
    /\ UNCHANGED <<data, ajaxData, files, sitesStore, currentStore, sessionRestored, currentSite, candidateSite,
                   config, hist, services>>

\* ------------------------------------------------------------------------
\* $mmSitesManager: checkSite, siteExists and checkMobileLocalPlugin
\* ------------------------------------------------------------------------

\* The text checkSite looks for before it validates a URL.
Localhost == <<":", "/", "/", "l", "o", "c", "a", "l", "h", "o", "s", "t">>

\* The path of the capability check of the local_mobile plugin.
LocalMobileCheck == <<"/local/mobile/check.php">>

\* The value $mmConfig holds for 'wsextservice'.
WsExtService == <<"local_mobile">>

\* What a user may type as the site address, with the protocol the caller
\* prefers (Undefined: none): a host without and with a scheme, a blank, and
\* a localhost address with a blank in it.
CheckSiteArgs ==
    { <<Host, Undefined>>, <<Http \o Host, Undefined>>, <<Https \o Host, Http>>,
      <<Host, Https>>, <<<<" ">>, Undefined>>,
      <<Http \o SubSeq(Localhost, 4, 12) \o <<" ">>, Undefined>> }

\* What check.php may answer: with or without a code, with or without the
\* error flag.
ProbeResponses ==
    {[code |-> c, error |-> e] :
        c \in {Undefined, <<"0">>, <<"1">>, <<"2">>, <<"3">>, <<"4">>, <<"7">>},
        e \in BOOLEAN}

\* The value of a decimal digit.
DigitValue(c) ==
    CASE c = "0" -> 0 [] c = "1" -> 1 [] c = "2" -> 2 [] c = "3" -> 3 [] c = "4" -> 4
      [] c = "5" -> 5 [] c = "6" -> 6 [] c = "7" -> 7 [] c = "8" -> 8 [] c = "9" -> 9

RECURSIVE parseInt(_)
\* parseInt(text, 10) of a text of decimal digits.
parseInt(text) ==
    IF Len(text) = 0 THEN 0
    ELSE 10 * parseInt(SubSeq(text, 1, Len(text) - 1)) + DigitValue(text[Len(text)])

\* Whether a URL starts with http:// or https://.
HasProtocol(url) == IndexOf(url, Https) = 0 \/ IndexOf(url, Http) = 0

\* $mmUtil.formatURL: adds the protocol if it is missing.
formatURL(url) == IF HasProtocol(url) THEN url ELSE Https \o url

\* $mmUtil.isValidURL: a protocol followed by a host without blanks.
isValidURL(url) ==
    /\ HasProtocol(url)
    /\ LET rest == IF IndexOf(url, Https) = 0 THEN SubSeq(url, Len(Https) + 1, Len(url))
                   ELSE SubSeq(url, Len(Http) + 1, Len(url))
       IN  rest # <<>> /\ \A i \in 1..Len(rest) : rest[i] # " "

\* siteurl.replace(/^http(s)?\:\/\//i, protocol)
replaceProtocol(siteurl, protocol) ==
    IF IndexOf(siteurl, Https) = 0
    THEN protocol \o SubSeq(siteurl, Len(Https) + 1, Len(siteurl))
    ELSE IF IndexOf(siteurl, Http) = 0
    THEN protocol \o SubSeq(siteurl, Len(Http) + 1, Len(siteurl))
    ELSE siteurl

checkSite_HttpFirst(op, siteurl, protocol) ==
    LET formatted == formatURL(siteurl)
    IN  IF IndexOf(formatted, Localhost) = -1 /\ ~isValidURL(formatted)
        THEN [valid |-> FALSE, op |-> op]
        ELSE LET url == replaceProtocol(formatted, IF protocol = Undefined THEN Http
                                                   ELSE protocol)
             IN  [valid |-> TRUE,
                  op |-> [op EXCEPT !.op = "checkSite", !.pc = "head", !.siteurl = url,
                                    !.sent = Append(@, Request("HEAD", url \o LoginToken,
                                                               <<>>, <<>>, <<>>))]]

checkSite_NoLocalhost(op, siteurl, protocol) ==
    LET formatted == formatURL(siteurl)
    IN  IF ~isValidURL(formatted)
        THEN [valid |-> FALSE, op |-> op]
        ELSE LET url == replaceProtocol(formatted, IF protocol = Undefined THEN Https
                                                   ELSE protocol)
             IN  [valid |-> TRUE,
                  op |-> [op EXCEPT !.op = "checkSite", !.pc = "head", !.siteurl = url,
                                    !.sent = Append(@, Request("HEAD", url \o LoginToken,
                                                               <<>>, <<>>, <<>>))]]

\* checkSite, up to the call of siteExists: whether the URL passed the check,
\* and the operation that waits for the HEAD request siteExists sends.
checkSite(op, siteurl, protocol) ==
    LET formatted == formatURL(siteurl)
    IN  IF IndexOf(formatted, Localhost) = -1 /\ ~isValidURL(formatted)
        THEN [valid |-> FALSE, op |-> op]
        ELSE LET url == replaceProtocol(formatted, IF protocol = Undefined THEN Https
                                                   ELSE protocol)
             IN  [valid |-> TRUE,
                  op |-> [op EXCEPT !.op = "checkSite", !.pc = "head", !.siteurl = url,
                                    !.sent = Append(@, Request("HEAD", url \o LoginToken,
                                                               <<>>, <<>>, <<>>))]]

\* The HEAD requests among the requests of an operation.
Heads(sent) == SelectSeq(sent, LAMBDA r : r.method = "HEAD")

\* The description of a step that settles checkSite.
CheckEvent(op, what, error, code, via) ==
    [NoEvent EXCEPT !.op = "checkSite", !.what = what, !.error = error, !.code = code,
                    !.via = via, !.result = IF what = "resolved" THEN op.siteurl ELSE <<>>,
                    !.protocol = op.protocol, !.retry = op.retry,
                    !.sent = Len(Heads(op.sent))]

\* checkSite is called by the login form.
CheckSite(siteurl, protocol) ==
    LET check == checkSite([Idle EXCEPT !.protocol = protocol], siteurl, protocol)
    IN  /\ IF check.valid
           THEN /\ FreeSlots # {}
                /\ ops' = [ops EXCEPT ![NewSlot] = check.op]
                /\ event' = [NoEvent EXCEPT !.op = "checkSite", !.what = "start",
                                            !.protocol = protocol]
           ELSE /\ ops' = ops
                /\ event' = CheckEvent([Idle EXCEPT !.protocol = protocol], "rejected",
                                       "mm.login.invalidsite", -1, "")
        /\ UNCHANGED <<data, ajaxData, files, sitesStore, currentStore, sessionRestored, currentSite,
                       candidateSite, config, hist, services>>

\* checkSite: siteExists resolved; checkMobileLocalPlugin asks $mmConfig for
\* 'wsextservice'.
CheckSiteExists(s) ==
    /\ ops[s].op = "checkSite" /\ ops[s].pc = "head"
    /\ ops' = [ops EXCEPT ![s].pc = "getExtService"]
    /\ event' = [NoEvent EXCEPT !.op = "checkSite", !.what = "exists"]
    /\ UNCHANGED <<data, ajaxData, files, sitesStore, currentStore, sessionRestored, currentSite, candidateSite,
                   config, hist, services>>

CheckSiteHeadFailed_NoRetry(s) ==
    /\ ops[s].op = "checkSite" /\ ops[s].pc = "head"
    /\ ops' = [ops EXCEPT ![s] = Idle]
    /\ event' = CheckEvent(ops[s], "rejected", "mm.core.cannotconnect", -1, "")
    /\ UNCHANGED <<data, ajaxData, files, sitesStore, currentStore, sessionRestored, currentSite, candidateSite,
                   config, hist, services>>

\* checkSite: siteExists rejected.
CheckSiteHeadFailed(s) ==
    /\ ops[s].op = "checkSite" /\ ops[s].pc = "head"
    /\ IF IndexOf(ops[s].siteurl, Https) = 0
       THEN LET check == checkSite(ops[s], ops[s].siteurl, Http)
            IN  IF check.valid
                THEN /\ ops' = [ops EXCEPT ![s] = [check.op EXCEPT !.retry = TRUE]]
                     /\ event' = [NoEvent EXCEPT !.op = "checkSite", !.what = "retry"]
                ELSE /\ ops' = [ops EXCEPT ![s] = Idle]
                     /\ event' = CheckEvent(ops[s], "rejected", "mm.login.invalidsite", -1, "")
       ELSE /\ ops' = [ops EXCEPT ![s] = Idle]
            /\ event' = CheckEvent(ops[s], "rejected", "mm.core.cannotconnect", -1, "")
    /\ UNCHANGED <<data, ajaxData, files, sitesStore, currentStore, sessionRestored, currentSite, candidateSite,
                   config, hist, services>>

\* checkMobileLocalPlugin: $mmConfig.get('wsextservice') resolved, and the
\* check is posted, or rejected, and the plugin counts as absent.
CheckMobileLocalPlugin(s, found) ==
    /\ ops[s].op = "checkSite" /\ ops[s].pc = "getExtService"
    /\ IF found
       THEN /\ ops' = [ops EXCEPT ![s].pc = "probe", ![s].service = WsExtService,
                                  ![s].sent = Append(@, Request("POST",
                                                 ops[s].siteurl \o LocalMobileCheck,
                                                 <<>>, <<>>, WsExtService))]
            /\ event' = [NoEvent EXCEPT !.op = "checkSite", !.what = "probe"]
       ELSE /\ ops' = [ops EXCEPT ![s] = Idle]
            /\ event' = CheckEvent(ops[s], "resolved", "", 0, "config")
    /\ UNCHANGED <<data, ajaxData, files, sitesStore, currentStore, sessionRestored, currentSite, candidateSite,
                   config, hist, services>>

probeOutcome_Lenient(response) ==
    IF response.code = Undefined
    THEN [kind |-> "resolve", error |-> "", code |-> 0, cache |-> FALSE]
    ELSE LET code == parseInt(response.code)
         IN  IF response.error
             THEN CASE code = 1 -> [kind |-> "reject", error |-> "mm.login.siteinmaintenance",
                                    code |-> -1, cache |-> FALSE]
                    [] code = 2 -> [kind |-> "reject", error |-> "mm.login.webservicesnotenabled",
                                    code |-> -1, cache |-> FALSE]
                    [] code = 3 -> [kind |-> "resolve", error |-> "", code |-> 0, cache |-> FALSE]
                    [] code = 4 -> [kind |-> "reject",
                                    error |-> "mm.login.mobileservicesnotenabled",
                                    code |-> -1, cache |-> FALSE]
                    [] OTHER -> [kind |-> "reject", error |-> "mm.core.unexpectederror",
                                 code |-> -1, cache |-> FALSE]
             ELSE [kind |-> "resolve", error |-> "", code |-> code, cache |-> TRUE]

probeOutcome_Code3Rejects(response) ==
    IF response.code = Undefined
    THEN [kind |-> "reject", error |-> "mm.core.unexpectederror", code |-> -1, cache |-> FALSE]
    ELSE LET code == parseInt(response.code)
         IN  IF response.error
             THEN CASE code = 1 -> [kind |-> "reject", error |-> "mm.login.siteinmaintenance",
                                    code |-> -1, cache |-> FALSE]
                    [] code = 2 -> [kind |-> "reject", error |-> "mm.login.webservicesnotenabled",
                                    code |-> -1, cache |-> FALSE]
                    [] code = 3 -> [kind |-> "reject", error |-> "mm.core.unexpectederror",
                                    code |-> -1, cache |-> FALSE]
                    [] code = 4 -> [kind |-> "reject",
                                    error |-> "mm.login.mobileservicesnotenabled",
                                    code |-> -1, cache |-> FALSE]
                    [] OTHER -> [kind |-> "reject", error |-> "mm.core.unexpectederror",
                                 code |-> -1, cache |-> FALSE]
             ELSE [kind |-> "resolve", error |-> "", code |-> code, cache |-> TRUE]

probeOutcome_NoCache(response) ==
    IF response.code = Undefined
    THEN [kind |-> "reject", error |-> "mm.core.unexpectederror", code |-> -1, cache |-> FALSE]
    ELSE LET code == parseInt(response.code)
         IN  IF response.error
             THEN CASE code = 1 -> [kind |-> "reject", error |-> "mm.login.siteinmaintenance",
                                    code |-> -1, cache |-> FALSE]
                    [] code = 2 -> [kind |-> "reject", error |-> "mm.login.webservicesnotenabled",
                                    code |-> -1, cache |-> FALSE]
                    [] code = 3 -> [kind |-> "resolve", error |-> "", code |-> 0, cache |-> FALSE]
                    [] code = 4 -> [kind |-> "reject",
                                    error |-> "mm.login.mobileservicesnotenabled",
                                    code |-> -1, cache |-> FALSE]
                    [] OTHER -> [kind |-> "reject", error |-> "mm.core.unexpectederror",
                                 code |-> -1, cache |-> FALSE]
             ELSE [kind |-> "resolve", error |-> "", code |-> code, cache |-> FALSE]

probeOutcome_CacheOnCode3(response) ==
    IF response.code = Undefined
    THEN [kind |-> "reject", error |-> "mm.core.unexpectederror", code |-> -1, cache |-> FALSE]
    ELSE LET code == parseInt(response.code)
         IN  IF response.error
             THEN CASE code = 1 -> [kind |-> "reject", error |-> "mm.login.siteinmaintenance",
                                    code |-> -1, cache |-> FALSE]
                    [] code = 2 -> [kind |-> "reject", error |-> "mm.login.webservicesnotenabled",
                                    code |-> -1, cache |-> FALSE]
                    [] code = 3 -> [kind |-> "resolve", error |-> "", code |-> 0, cache |-> TRUE]
                    [] code = 4 -> [kind |-> "reject",
                                    error |-> "mm.login.mobileservicesnotenabled",
                                    code |-> -1, cache |-> FALSE]
                    [] OTHER -> [kind |-> "reject", error |-> "mm.core.unexpectederror",
                                 code |-> -1, cache |-> FALSE]
             ELSE [kind |-> "resolve", error |-> "", code |-> code, cache |-> TRUE]

\* checkMobileLocalPlugin: what the success callback of the post does with a
\* response, and whether it keeps the service for the site.
probeOutcome(response) ==
    IF response.code = Undefined
    THEN [kind |-> "reject", error |-> "mm.core.unexpectederror", code |-> -1, cache |-> FALSE]
    ELSE LET code == parseInt(response.code)
         IN  IF response.error
             THEN CASE code = 1 -> [kind |-> "reject", error |-> "mm.login.siteinmaintenance",
                                    code |-> -1, cache |-> FALSE]
                    [] code = 2 -> [kind |-> "reject", error |-> "mm.login.webservicesnotenabled",
                                    code |-> -1, cache |-> FALSE]
                    [] code = 3 -> [kind |-> "resolve", error |-> "", code |-> 0, cache |-> FALSE]
                    [] code = 4 -> [kind |-> "reject",
                                    error |-> "mm.login.mobileservicesnotenabled",
                                    code |-> -1, cache |-> FALSE]
                    [] OTHER -> [kind |-> "reject", error |-> "mm.core.unexpectederror",
                                 code |-> -1, cache |-> FALSE]
             ELSE [kind |-> "resolve", error |-> "", code |-> code, cache |-> TRUE]

\* checkMobileLocalPlugin: the post got a response; checkSite settles with
\* what the check settled with.
ProbeResponse(s, response) ==
    /\ ops[s].op = "checkSite" /\ ops[s].pc = "probe"
    /\ LET out == probeOutcome(response)
       IN  /\ services' = IF out.cache
                          THEN [u \in DOMAIN services \cup {ops[s].siteurl} |->
                                   IF u = ops[s].siteurl THEN ops[s].service ELSE services[u]]
                          ELSE services
           /\ event' = IF out.kind = "resolve"
                       THEN CheckEvent(ops[s], "resolved", "", out.code, "success")
                       ELSE CheckEvent(ops[s], "rejected", out.error, -1, "success")
    /\ ops' = [ops EXCEPT ![s] = Idle]
    /\ UNCHANGED <<data, ajaxData, files, sitesStore, currentStore, sessionRestored, currentSite, candidateSite,
                   config, hist>>

\* checkMobileLocalPlugin: the post failed.
ProbeFailed(s) ==
    /\ ops[s].op = "checkSite" /\ ops[s].pc = "probe"
    /\ ops' = [ops EXCEPT ![s] = Idle]
    /\ event' = CheckEvent(ops[s], "resolved", "", 0, "error")
    /\ UNCHANGED <<data, ajaxData, files, sitesStore, currentStore, sessionRestored, currentSite, candidateSite,
                   config, hist, services>>

\* ------------------------------------------------------------------------
\* $mmSitesManager: getMoodleFilePath and deleteSite
\* ------------------------------------------------------------------------

\* The file references getMoodleFilePath is called with: none, a picture
\* served by pluginfile.php, a script.
FileURLs ==
    { <<>>,
      <<"http://m/pluginfile", ".", "p", "h", "p", "/f", ".", "p", "n", "g">>,
      <<"http://m/x", ".", "p", "h", "p">> }

\* The course ids it is called with: none, course 7.
CourseIds == {Undefined, <<"7">>}

\* The site ids it is called with: none, the stored site, a site that is not
\* stored.
FileSiteIds == {Undefined, createHash(Https \o Host \o <<"u">>), createHash(Http \o Host \o <<"v">>)}

\* $mmSite.getId: the id of the active site, undefined without one.
getId == IF currentSite = {} THEN Undefined ELSE (CHOOSE r \in currentSite : TRUE).id

\* $mmUtil.fixPluginfileURL: the URL with the token as a parameter.
fixPluginfileURL(fileurl, token) == fileurl \o <<"?token=">> \o token

\* fileEntry.toInternalURL of the file at a path.
toInternalURL(path) == <<"cdvfile://localhost/persistent/">> \o path

\* getMoodleFilePath: "." and what follows the last "." of the file
\* reference, nothing when that starts with .php.
extension(fileurl) ==
    LET parts == Split(fileurl, <<".">>)
        ext == <<".">> \o parts[Len(parts)]
    IN  IF IndexOf(ext, <<".", "p", "h", "p">>) = 0 THEN <<>> ELSE ext

\* getMoodleFilePath: path.file
filePath(fileurl, courseId, siteId) ==
    siteId \o <<"/">> \o courseId \o <<"/">> \o createHash(fileurl) \o extension(fileurl)

\* The description of a step that settles getMoodleFilePath.
FileEvent(what, error, result, via) ==
    [NoEvent EXCEPT !.op = "getMoodleFilePath", !.what = what, !.error = error,
                    !.result = result, !.via = via]

\* getMoodleFilePath, up to the call of db.get.
GetMoodleFilePath(fileurl, courseId, siteId) ==
    LET course == IF courseId = Undefined THEN <<"1">> ELSE courseId
        site == IF siteId = Undefined THEN getId ELSE siteId
    IN  /\ IF fileurl = <<>> \/ site = Undefined
           THEN /\ ops' = ops
                /\ event' = FileEvent("rejected", "undefined", <<>>, "")
           ELSE /\ FreeSlots # {}
                /\ ops' = [ops EXCEPT ![NewSlot] =
                              [Idle EXCEPT !.op = "getMoodleFilePath", !.pc = "get",
                                           !.siteid = site, !.fileurl = fileurl,
                                           !.course = course]]
                /\ event' = [NoEvent EXCEPT !.op = "getMoodleFilePath", !.what = "start"]
        /\ UNCHANGED <<data, ajaxData, sitesStore, currentStore, sessionRestored, currentSite,
                       candidateSite, config, hist, services, files>>

\* getMoodleFilePath: the callback of db.get, which asks $mmFS for the file,
\* or the rejection of db.get.
FilePathSite(s) ==
    /\ ops[s].op = "getMoodleFilePath" /\ ops[s].pc = "got"
    /\ IF ops[s].got # {}
       THEN LET site == CHOOSE r \in ops[s].got : TRUE
            IN  /\ ops' = [ops EXCEPT ![s].pc = "getFile", ![s].got = {},
                              ![s].downloadURL = fixPluginfileURL(ops[s].fileurl, site.token),
                              ![s].path = filePath(ops[s].fileurl, ops[s].course,
                                                   ops[s].siteid)]
                /\ event' = [NoEvent EXCEPT !.op = "getMoodleFilePath", !.what = "getFile"]
       ELSE /\ ops' = [ops EXCEPT ![s] = Idle]
            /\ event' = FileEvent("rejected", "db.get", <<>>, "")
    /\ UNCHANGED <<data, ajaxData, sitesStore, currentStore, sessionRestored, currentSite, candidateSite,
                   config, hist, services, files>>

FileChecked_AlwaysDownload(s, network) ==
    /\ ops[s].op = "getMoodleFilePath" /\ ops[s].pc = "getFile"
    /\ ops' = [ops EXCEPT ![s].pc = "download"]
    /\ event' = [NoEvent EXCEPT !.op = "getMoodleFilePath", !.what = "download",
                                !.via = network]
    /\ UNCHANGED <<data, ajaxData, sitesStore, currentStore, sessionRestored, currentSite, candidateSite,
                   config, hist, services, files>>

\* getMoodleFilePath: $mmFS.getFile resolved (the file system has the file)
\* or rejected; then $cordovaNetwork.isOnline() says online or offline, or
\* throws.
FileChecked(s, network) ==
    /\ ops[s].op = "getMoodleFilePath" /\ ops[s].pc = "getFile"
    /\ IF ops[s].path \in files
       THEN /\ ops' = [ops EXCEPT ![s] = Idle]
            /\ event' = FileEvent("resolved", "", toInternalURL(ops[s].path), "local")
       ELSE IF network = "online"
       THEN /\ ops' = [ops EXCEPT ![s].pc = "download"]
            /\ event' = [NoEvent EXCEPT !.op = "getMoodleFilePath", !.what = "download",
                                        !.via = network]
       ELSE /\ ops' = [ops EXCEPT ![s] = Idle]
            /\ event' = FileEvent("resolved", "", ops[s].downloadURL, network)
    /\ UNCHANGED <<data, ajaxData, sitesStore, currentStore, sessionRestored, currentSite, candidateSite,
                   config, hist, services, files>>

\* getMoodleFilePath: $mmWS.downloadFile resolved.
DownloadDone(s) ==
    /\ ops[s].op = "getMoodleFilePath" /\ ops[s].pc = "download"
    /\ files' = files \cup {ops[s].path}
    /\ ops' = [ops EXCEPT ![s] = Idle]
    /\ event' = FileEvent("resolved", "", toInternalURL(ops[s].path), "downloaded")
    /\ UNCHANGED <<data, ajaxData, sitesStore, currentStore, sessionRestored, currentSite, candidateSite,
                   config, hist, services>>

DownloadFailed_Rejects(s) ==
    /\ ops[s].op = "getMoodleFilePath" /\ ops[s].pc = "download"
    /\ ops' = [ops EXCEPT ![s] = Idle]
    /\ event' = FileEvent("rejected", "download", <<>>, "failed")
    /\ UNCHANGED <<data, ajaxData, sitesStore, currentStore, sessionRestored, currentSite, candidateSite,
                   config, hist, services, files>>

\* getMoodleFilePath: $mmWS.downloadFile rejected.
DownloadFailed(s) ==
    /\ ops[s].op = "getMoodleFilePath" /\ ops[s].pc = "download"
    /\ ops' = [ops EXCEPT ![s] = Idle]
    /\ event' = FileEvent("resolved", "", ops[s].downloadURL, "failed")
    /\ UNCHANGED <<data, ajaxData, sitesStore, currentStore, sessionRestored, currentSite, candidateSite,
                   config, hist, services, files>>

\* deleteSite, up to the call of $mmSite.deleteSite.
DeleteSite(siteid) ==
    /\ FreeSlots # {}
    /\ ops' = [ops EXCEPT ![NewSlot] =
                  [Idle EXCEPT !.op = "deleteSite", !.pc = "cascade", !.siteid = siteid]]
    /\ event' = [NoEvent EXCEPT !.op = "deleteSite", !.what = "start"]
    /\ UNCHANGED <<data, ajaxData, sitesStore, currentStore, sessionRestored, currentSite, candidateSite,
                   config, hist, services, files>>

DeleteSiteFailed_Removes(s) ==
    /\ ops[s].op = "deleteSite" /\ ops[s].pc = "cascade"
    /\ sitesStore' = dbRemove(sitesStore, ops[s].siteid)
    /\ ops' = [ops EXCEPT ![s] = Idle]
    /\ event' = [NoEvent EXCEPT !.op = "deleteSite", !.what = "rejected",
                                !.error = "mmSite.deleteSite", !.result = ops[s].siteid,
                                !.had = dbGet(sitesStore, ops[s].siteid) # {}]
    /\ UNCHANGED <<data, ajaxData, currentStore, sessionRestored, currentSite, candidateSite,
                   config, hist, services, files>>

\* deleteSite: $mmSite.deleteSite rejected.
DeleteSiteFailed(s) ==
    /\ ops[s].op = "deleteSite" /\ ops[s].pc = "cascade"
    /\ ops' = [ops EXCEPT ![s] = Idle]
    /\ event' = [NoEvent EXCEPT !.op = "deleteSite", !.what = "rejected",
                                !.error = "mmSite.deleteSite", !.result = ops[s].siteid,
                                !.had = dbGet(sitesStore, ops[s].siteid) # {}]
    /\ UNCHANGED <<data, ajaxData, sitesStore, currentStore, sessionRestored, currentSite, candidateSite,
                   config, hist, services, files>>

\* deleteSite: $mmSite.deleteSite resolved, having deleted the files of the
\* site, and db.remove takes the record out of the sites store.
DeleteSiteDone(s) ==
    /\ ops[s].op = "deleteSite" /\ ops[s].pc = "cascade"
    /\ sitesStore' = dbRemove(sitesStore, ops[s].siteid)
    /\ files' = {path \in files : IndexOf(path, ops[s].siteid \o <<"/">>) # 0}
    /\ ops' = [ops EXCEPT ![s] = Idle]
    /\ event' = [NoEvent EXCEPT !.op = "deleteSite", !.what = "resolved",
                                !.result = ops[s].siteid,
                                !.had = dbGet(sitesStore, ops[s].siteid) # {}]
    /\ UNCHANGED <<data, ajaxData, currentStore, sessionRestored, currentSite, candidateSite,
                   config, hist, services>>

\* ------------------------------------------------------------------------
\* Specifications
\* ------------------------------------------------------------------------

\* A site record left in the db by an earlier run of the app.
StoredSite ==
    [id |-> createHash(Https \o Host \o <<"u">>), siteurl |-> Https \o Host,
     token |-> <<"t1">>,
     infos |-> [username |-> <<"u">>,
                functions |-> <<[name |-> FnCoreGetStrings], [name |-> FnCoreGetComponentStrings]>>,
                release |-> <<"2.4">>]]

\* The app has started: the db holds what earlier runs left (nothing, a site
\* after a logout, or a site and the pointer to it), nothing is in memory.
Init ==
    /\ \E persisted \in {"none", "site", "session"} :
          /\ sitesStore = IF persisted = "none" THEN {} ELSE {StoredSite}
          /\ currentStore = IF persisted = "session"
                            THEN {[id |-> CurrentSiteKey, siteid |-> StoredSite.id]}
                            ELSE {}
    /\ sessionRestored = FALSE
    /\ currentSite = {}
    /\ candidateSite = {}
    /\ config = NoLaunchState
    /\ ops = [s \in Slots |-> Idle]
    /\ event = NoEvent
    /\ hist = [pointerGets |-> "none", handled |-> FALSE, accepted |-> "none"]
    /\ services = [u \in {} |-> <<>>]
    /\ files = {}
    /\ data = Leaf("undefined", 0, FALSE, <<>>)
    /\ ajaxData = Leaf("undefined", 0, FALSE, <<>>)

\* The steps of the sites manager.
NextSites ==
    \/ \E args \in NewSiteArgs : NewSite(args[1], args[2])
    \/ \E s \in Slots, infos \in Infos : NewSiteInfo(s, infos)
    \/ \E s \in Slots, error \in FetchErrors : NewSiteFetchFailed(s, error)
    \/ \E siteid \in SiteIds : LoadSite(siteid)
    \/ \E s \in Slots : DbRead(s)
    \/ \E s \in Slots : LoadSiteGot(s)
    \/ Logout
    \/ RestoreSession
    \/ \E s \in Slots : RestoreSessionGot(s)

\* The steps of an SSO login.
NextSSO ==
    \/ \E siteurl \in SiteURLs, passport \in Passports : WriteLaunchState(siteurl, passport)
    \/ \E url \in LaunchURLs : SSOCallback(url)
    \/ \E s \in Slots : ConfigRead(s)
    \/ \E s \in Slots : SSOGotURL(s)
    \/ \E s \in Slots : SSOGetFailed(s)
    \/ \E s \in Slots : SSOGotPassport(s)
    \/ \E s \in Slots, infos \in InvalidInfos : NewSiteInfo(s, infos)
    \/ \E s \in Slots, error \in FetchErrors : NewSiteFetchFailed(s, error)

\* The steps of the web service client, in a session that may end.
NextWS ==
    \/ \E preSets \in PreSets, network \in NetworkStates : Call(preSets, network)
    \/ \E s \in Slots, body \in ResponseBodies : CallResponse(s, body)
    \/ \E s \in Slots : CallFailed(s)
    \/ RestoreSession
    \/ \E s \in Slots : DbRead(s)
    \/ \E s \in Slots : RestoreSessionGot(s)
    \/ \E s \in Slots : LoadSiteGot(s)
    \/ Logout

SpecSites == Init /\ [][NextSites]_vars

\* An SSO login on a fresh installation, to a site that turns out to lack the
\* required function or not to answer.  Its initial state:
InitSSO == Init /\ sitesStore = {}

SpecSSO == InitSSO /\ [][NextSSO]_vars

SpecWS == Init /\ [][NextWS]_vars

\* Registrations of the accounts of two sites with similar URLs.
NextIdentity ==
    \/ \E args \in IdentityArgs : NewSite(args[1], args[2])
    \/ \E s \in Slots, infos \in IdentityInfos : NewSiteInfo(s, infos)
    \/ \E s \in Slots, error \in FetchErrors : NewSiteFetchFailed(s, error)

SpecIdentity == Init /\ [][NextIdentity]_vars

\* The steps of the check of a site address.
NextCheck ==
    \/ \E args \in CheckSiteArgs : CheckSite(args[1], args[2])
    \/ \E s \in Slots : CheckSiteExists(s)
    \/ \E s \in Slots : CheckSiteHeadFailed(s)
    \/ \E s \in Slots, found \in BOOLEAN : CheckMobileLocalPlugin(s, found)
    \/ \E s \in Slots, response \in ProbeResponses : ProbeResponse(s, response)
    \/ \E s \in Slots : ProbeFailed(s)

\* The steps of a login with credentials to a site that passes its check
\* with code 0, under https or under http: the check of the address and the
\* requests of a token.
NextToken ==
    \/ CheckSite(Host, Undefined)
    \/ \E s \in Slots : CheckSiteExists(s)
    \/ \E s \in Slots : CheckSiteHeadFailed(s)
    \/ \E s \in Slots : CheckMobileLocalPlugin(s, TRUE)
    \/ \E s \in Slots : ProbeResponse(s, [code |-> <<"0">>, error |-> FALSE])
    \/ \E siteurl \in SiteURLs, cred \in Credentials : GetUserToken(siteurl, cred[1], cred[2])
    \/ \E s \in Slots, found \in BOOLEAN : GetUserTokenService(s, found)
    \/ \E s \in Slots, response \in TokenResponses, logindataDefined \in BOOLEAN :
          GetUserTokenResponse(s, response, logindataDefined)
    \/ \E s \in Slots : GetUserTokenFailed(s)

\* A login on a fresh installation.  Its initial state:
InitLogin == Init /\ sitesStore = {}

SpecCheck == InitLogin /\ [][NextCheck]_vars

SpecToken == InitLogin /\ [][NextToken]_vars

\* Every request of a getUserToken gets its answer: the read of the default
\* service settles, and the post gets a response or fails.
TokenFairness ==
    \A s \in Slots :
        /\ WF_vars(\E found \in BOOLEAN : GetUserTokenService(s, found))
        /\ WF_vars(\/ \E response \in TokenResponses, logindataDefined \in BOOLEAN :
                         GetUserTokenResponse(s, response, logindataDefined)
                   \/ GetUserTokenFailed(s))

SpecTokenLive == InitLogin /\ [][NextToken]_vars /\ TokenFairness

\* The steps of the display of files of a site: the site is loaded, file
\* references are turned into paths.
NextFiles ==
    \/ \E fileurl \in FileURLs, courseId \in CourseIds, siteId \in FileSiteIds :
          GetMoodleFilePath(fileurl, courseId, siteId)
    \/ \E s \in Slots : DbRead(s)
    \/ \E s \in Slots : FilePathSite(s)
    \/ \E s \in Slots, network \in NetworkStates : FileChecked(s, network)
    \/ \E s \in Slots : DownloadDone(s)
    \/ \E s \in Slots : DownloadFailed(s)
    \/ LoadSite(StoredSite.id)
    \/ \E s \in Slots : LoadSiteGot(s)

\* The app has started with a session stored.
InitFiles == Init /\ currentStore # {}

SpecFiles == InitFiles /\ [][NextFiles]_vars

\* The steps of the management of the stored sites.
NextDelete ==
    \/ \E args \in NewSiteArgs : NewSite(args[1], args[2])
    \/ \E s \in Slots, infos \in ValidInfos : NewSiteInfo(s, infos)
    \/ \E siteid \in SiteIds : DeleteSite(siteid)
    \/ \E s \in Slots : DeleteSiteDone(s)
    \/ \E s \in Slots : DeleteSiteFailed(s)

SpecDelete == Init /\ [][NextDelete]_vars

\* The steps of calls of a web service function with arguments.
NextConvert ==
    \/ \E preSets \in {p \in PreSets : p.defined /\ p.siteurl # Undefined} :
          Call(preSets, "online")
    \/ \E s \in Slots : CallResponse(s, BlankObject)
    \/ \E s \in Slots : CallFailed(s)

\* The app has started and a caller holds the arguments of a call.
InitConvert ==
    /\ sitesStore = {StoredSite}
    /\ currentStore = {}
    /\ sessionRestored = FALSE
    /\ currentSite = {}
    /\ candidateSite = {}
    /\ config = NoLaunchState
    /\ ops = [s \in Slots |-> Idle]
    /\ event = NoEvent
    /\ hist = [pointerGets |-> "none", handled |-> FALSE, accepted |-> "none"]
    /\ services = [u \in {} |-> <<>>]
    /\ files = {}
    /\ data \in Arguments(MaxDepth)
    /\ ajaxData = Leaf("undefined", 0, FALSE, <<>>)

SpecConvert == InitConvert /\ [][NextConvert]_vars

\* The steps of a user who checks a site, logs in with credentials, and
\* manages the stored site meanwhile.
NextCache ==
    \/ CheckSite(Host, Undefined)
    \/ \E s \in Slots : CheckSiteExists(s)
    \/ \E s \in Slots : CheckSiteHeadFailed(s)
    \/ \E s \in Slots, found \in BOOLEAN : CheckMobileLocalPlugin(s, found)
    \/ \E s \in Slots, response \in ProbeResponses : ProbeResponse(s, response)
    \/ \E s \in Slots : ProbeFailed(s)
    \/ GetUserToken(Https \o Host, <<"u">>, <<"pw">>)
    \/ \E s \in Slots : GetUserTokenService(s, TRUE)
    \/ \E s \in Slots, response \in TokenResponses : GetUserTokenResponse(s, response, TRUE)
    \/ NewSite(Https \o Host, <<"t1">>)
    \/ \E s \in Slots, infos \in ValidInfos : NewSiteInfo(s, infos)
    \/ LoadSite(StoredSite.id)
    \/ \E s \in Slots : DbRead(s)
    \/ \E s \in Slots : LoadSiteGot(s)
    \/ Logout
    \/ DeleteSite(StoredSite.id)
    \/ \E s \in Slots : DeleteSiteDone(s)

\* The app has started with a site stored and no session.
InitCache == Init /\ sitesStore # {} /\ currentStore = {}

SpecCache == InitCache /\ [][NextCache]_vars

\* Every step of the app.
Next ==
    NextSites \/ NextSSO \/ NextWS \/ NextIdentity \/ NextCheck \/ NextToken \/ NextFiles
        \/ NextDelete \/ NextConvert \/ NextCache

Spec == Init /\ [][Next]_vars

\* ------------------------------------------------------------------------
\* Properties
\* ------------------------------------------------------------------------

\* Whether some name of the list contains component_strings.
HasComponentStrings(functions) ==
    \E i \in DOMAIN functions :
        \E k \in 1..Len(functions[i].name) :
            /\ k + Len(ComponentStrings) - 1 <= Len(functions[i].name)
            /\ \A j \in 1..Len(ComponentStrings) :
                  functions[i].name[k + j - 1] = ComponentStrings[j]

\* A URL with its scheme swapped between https and http.
SwapScheme(u) ==
    IF Len(u) >= Len(Https) /\ SubSeq(u, 1, Len(Https)) = Https
    THEN Http \o SubSeq(u, Len(Https) + 1, Len(u))
    ELSE IF Len(u) >= Len(Http) /\ SubSeq(u, 1, Len(Http)) = Http
    THEN Https \o SubSeq(u, Len(Http) + 1, Len(u))
    ELSE u

\* C1: newSite writes neither the sites store nor the current-site store when
\* it starts, and when the site-info fetch fails or the function list lacks
\* the required function it leaves both stores as they are and rejects; a
\* step of newSite that writes a store is one whose fetch succeeded with a
\* function list that passes the check.
C1_NoWriteBeforeValidation ==
    [][ /\ \A args \in NewSiteArgs : NewSite(args[1], args[2]) => UNCHANGED storeVars
        /\ \A s \in Slots :
              /\ (ops[s].op # "newSite" /\ ops'[s].op = "newSite") => UNCHANGED storeVars
              /\ \A error \in FetchErrors :
                    NewSiteFetchFailed(s, error) =>
                        UNCHANGED storeVars /\ event'.what = "rejected"
              /\ \A infos \in Infos :
                    (NewSiteInfo(s, infos) /\ ~HasComponentStrings(infos.functions)) =>
                        UNCHANGED storeVars /\ event'.what = "rejected"
              /\ (ops[s].op = "newSite" /\ ops'[s].op = "idle" /\ storeVars' # storeVars) =>
                    \E infos \in Infos :
                        HasComponentStrings(infos.functions) /\ NewSiteInfo(s, infos)
      ]_vars

\* C1 witness: a newSite whose fetch failed, with a site and a session stored.
C1_Witness ==
    /\ event.op = "newSite" /\ event.what = "rejected"
    /\ event.error = "mm.core.cannotconnect"
    /\ sitesStore # {} /\ currentStore # {}

\* C2: once the site info is fetched, newSite resolves and persists the site
\* record exactly when a function name contains component_strings, whatever
\* the release; otherwise it rejects with mm.login.invalidmoodleversion and
\* leaves the sites store as it is.
C2_VersionGate ==
    [][ \A s \in Slots, infos \in Infos :
            NewSiteInfo(s, infos) =>
                IF HasComponentStrings(infos.functions)
                THEN /\ event'.what = "resolved"
                     /\ \E r \in sitesStore' :
                           /\ r.siteurl = ops[s].siteurl /\ r.token = ops[s].token
                           /\ r.infos = infos
                ELSE /\ event'.what = "rejected"
                     /\ event'.error = "mm.login.invalidmoodleversion"
                     /\ sitesStore' = sitesStore
      ]_vars

\* C2 witness: a newSite rejected for the missing function.
C2_Witness ==
    /\ event.op = "newSite" /\ event.what = "rejected"
    /\ event.error = "mm.login.invalidmoodleversion"

\* C3 (as claimed): after the handling of an SSO callback, whatever its
\* outcome (accepted, rejected, payload not decodable), both launch entries
\* are absent from the configuration.
C3_LaunchStateCleared ==
    [][ (event'.op = "sso" /\ event'.what \in {"accepted", "rejected", "decodeerror"}) =>
            config' = NoLaunchState
      ]_vars

\* C4: the validator accepts a callback exactly when its signature is the hash
\* of the stored URL and passport, or of the URL with its scheme swapped and
\* the passport; otherwise it rejects with an error and newSite is not called.
C4_SignatureAccepted ==
    [][ \A s \in Slots :
            /\ (ops[s].op = "sso" /\ ops[s].pc = "gotPassport" /\ ops'[s].pc # "gotPassport") =>
                  LET received == ops[s].params[1]
                      expected == { createHash(ops[s].siteurl \o ops[s].passport),
                                    createHash(SwapScheme(ops[s].siteurl) \o ops[s].passport) }
                  IN  /\ (ops'[s].op = "newSite") <=> (received \in expected)
                      /\ (received \notin expected) =>
                            /\ ops'[s] = Idle
                            /\ candidateSite' = candidateSite
                            /\ event'.what = "rejected" /\ event'.error # ""
            /\ (ops[s].op = "sso" /\ ops'[s].op = "newSite") => ops[s].pc = "gotPassport"
      ]_vars

\* C4 witness: a callback rejected for its signature.
C4_Witness ==
    /\ event.op = "sso" /\ event.what = "rejected"
    /\ event.error = "mm.core.unexpectederror"

\* C5 (as claimed): after one write of the launch state at most one callback
\* is accepted, and it is the first callback that arrived after the write.
C5_SingleUse ==
    /\ hist.accepted # "many"
    /\ (event.op = "sso" /\ event.what = "accepted") => event.first

\* C6: an accepted callback calls newSite with the URL whose hash matched (the
\* stored URL if the first comparison matched, the scheme-swapped one
\* otherwise) and with the token field of the payload.
C6_SiteData ==
    [][ \A s \in Slots :
            (ops[s].op = "sso" /\ ops'[s].op = "newSite") =>
                LET received == ops[s].params[1]
                    siteurl == IF received = createHash(ops[s].siteurl \o ops[s].passport)
                               THEN ops[s].siteurl
                               ELSE SwapScheme(ops[s].siteurl)
                    token == IF Len(ops[s].params) >= 2 THEN ops[s].params[2] ELSE Undefined
                IN  /\ ops'[s].pc = "fetch"
                    /\ ops'[s].siteurl = siteurl
                    /\ ops'[s].token = token
                    /\ candidateSite' = {[siteurl |-> siteurl, token |-> token]}
      ]_vars

\* C6 witness: a callback accepted on the scheme-swapped URL.
C6_Witness ==
    /\ event.op = "sso" /\ event.what = "accepted" /\ event.swapped
    /\ \E s \in Slots : ops[s].op = "newSite" /\ ops[s].via = "sso"

\* C7 (as claimed): a call that ends in the lost-connection (invalid token or
\* access exception) error leaves no current-site pointer, and no other
\* outcome of a call changes the current-site store.
C7_AuthErrorLogsOut ==
    [][ event'.op = "call" =>
            IF event'.error = "mm.core.lostconnection"
            THEN currentStore' = {}
            ELSE currentStore' = currentStore
      ]_vars

\* C8: only the first restoreSession reads the current-site pointer; a later
\* one rejects at once and changes no store, no site and no pending operation.
C8_RestoreOnce ==
    [][ /\ hist'.pointerGets # "many"
        /\ (RestoreSession /\ hist.pointerGets # "none") =>
              /\ event'.what = "rejected"
              /\ UNCHANGED <<sitesStore, currentStore, currentSite, candidateSite, ops, hist>>
      ]_vars

\* C8 witness: a second restoreSession rejected while the first is in flight.
C8_Witness ==
    /\ event.op = "restoreSession" /\ event.what = "rejected" /\ event.error = ""
    /\ \E s \in Slots : ops[s].op = "restoreSession"

\* C9: logout removes the current-site pointer and leaves every site record as
\* it is, and the db.get of a loadSite for a stored id finds the record.
C9_LogoutKeepsSites ==
    [][ /\ Logout => (currentStore' = {} /\ sitesStore' = sitesStore)
        /\ \A s \in Slots :
              (DbRead(s) /\ ops[s].pc = "get"
                  /\ \E r \in sitesStore : r.id = ops[s].siteid) =>
                  ops'[s].got = {r \in sitesStore : r.id = ops[s].siteid}
        /\ \A s \in Slots :
              (LoadSiteGot(s) /\ ops[s].got # {}) =>
                  /\ event'.what = "resolved"
                  /\ currentSite' = ops[s].got
      ]_vars

\* C9 witness: a logout that ended a session on a stored site.
C9_Witness ==
    /\ event.op = "logout" /\ event.had
    /\ currentStore = {} /\ sitesStore # {}

\* C10: the current-site store never holds more than one record; a newSite,
\* loadSite or restoreSession that resolves leaves exactly the pointer to the
\* site it activated; logout leaves none.
C10_OnePointer ==
    /\ Cardinality(currentStore) <= 1
    /\ [][ /\ Cardinality(currentStore') <= 1
           /\ \A s \in Slots :
                 (ops[s].op \in {"newSite", "loadSite", "restoreSession"}
                     /\ ops'[s].op = "idle" /\ event'.what = "resolved") =>
                     /\ \E site \in currentSite' :
                           currentStore' = {[id |-> CurrentSiteKey, siteid |-> site.id]}
                     /\ ops[s].op # "newSite" =>
                           currentStore' = {[id |-> CurrentSiteKey, siteid |-> ops[s].siteid]}
                     /\ ops[s].op = "newSite" =>
                           \E site \in currentSite' : site.siteurl = ops[s].siteurl
           /\ Logout => currentStore' = {}
         ]_vars

\* C10 witness: a newSite that replaced the pointer to another site.
C10_Witness ==
    /\ event.op = "newSite" /\ event.what = "resolved" /\ event.had
    /\ \E c \in currentStore : c.siteid # StoredSite.id
    /\ Cardinality(sitesStore) >= 2

\* C11: when newSite succeeds for a url and a server-reported username, the
\* sites store holds exactly one record with the id newSite computed, and it
\* carries the url, token and info of that call; a loadSite of an id reads the
\* record stored under that id, and when there is one it resolves and
\* activates a site whose id, url, token and info are those of that record.
C11_RoundTrip ==
    [][ \A s \in Slots :
           /\ \A infos \in Infos :
                 (NewSiteInfo(s, infos) /\ HasComponentStrings(infos.functions)) =>
                     /\ event'.what = "resolved"
                     /\ \E r \in sitesStore' :
                           /\ r = [id |-> createHash(ops[s].siteurl \o infos.username),
                                   siteurl |-> ops[s].siteurl, token |-> ops[s].token,
                                   infos |-> infos]
                           /\ \A q \in sitesStore' : q.id = r.id => q = r
                           /\ currentSite' = {r}
           /\ (ops[s].op = "loadSite" /\ ops[s].pc = "get" /\ ops'[s].pc = "got") =>
                 ops'[s].got = {r \in sitesStore : r.id = ops[s].siteid}
           /\ (ops[s].op = "loadSite" /\ ops[s].pc = "got" /\ ops[s].got # {}
                 /\ ops'[s].op = "idle") =>
                 /\ event'.op = "loadSite" /\ event'.what = "resolved"
                 /\ currentSite' = ops[s].got
                 /\ \A r \in currentSite' : r.id = ops[s].siteid
      ]_vars

\* C11 witness: a loadSite resolved with a site that newSite stored in this
\* run, after a logout.
C11_Witness ==
    /\ event.op = "loadSite" /\ event.what = "resolved" /\ ~event.had
    /\ currentSite # {} /\ currentSite # {StoredSite}
    /\ currentSite \subseteq sitesStore

\* C12: a successful newSite for a url and a server-reported username that
\* already have a record replaces that record by one with the new token and
\* info and adds none; for a url and username without a record (the url or
\* the username differs from those of every record) it adds a record and
\* leaves the others as they are.
C12_IdOfUrlAndUsername ==
    [][ \A s \in Slots : \A infos \in IdentityInfos :
           (NewSiteInfo(s, infos) /\ HasComponentStrings(infos.functions)) =>
               LET same == {r \in sitesStore : /\ r.siteurl = ops[s].siteurl
                                               /\ r.infos.username = infos.username}
                   new == [id |-> createHash(ops[s].siteurl \o infos.username),
                           siteurl |-> ops[s].siteurl, token |-> ops[s].token,
                           infos |-> infos]
               IN  /\ Cardinality(same) <= 1
                   /\ sitesStore' = (sitesStore \ same) \cup {new}
                   /\ same # {} => Cardinality(sitesStore') = Cardinality(sitesStore)
                   /\ same = {} => Cardinality(sitesStore') = Cardinality(sitesStore) + 1
      ]_vars

\* A URL with www. put in front of its host.
WwwPrefixed(u) ==
    IF Len(u) >= Len(Https) /\ SubSeq(u, 1, Len(Https)) = Https
    THEN Https \o <<"w", "w", "w", ".">> \o SubSeq(u, Len(Https) + 1, Len(u))
    ELSE IF Len(u) >= Len(Http) /\ SubSeq(u, 1, Len(Http)) = Http
    THEN Http \o <<"w", "w", "w", ".">> \o SubSeq(u, Len(Http) + 1, Len(u))
    ELSE u

\* Whether a response has no token and reports that the site wants its
\* canonical host.
WantsCorrectAccess(response) ==
    response.token = <<"undefined">> /\ response.errorcode = <<"requirecorrectaccess">>

\* C13: when the first response of a getUserToken call (not a retry) has no
\* token and reports requirecorrectaccess, the call goes on as a retry for the
\* same URL with www. in front of the host: it waits for the service or has
\* posted the same credentials once more to the token endpoint of that URL,
\* and it has not settled or stopped otherwise.
C13_RetryWithWww ==
    [][ \A s \in Slots : (ops[s].op = "getUserToken" /\ ops[s].pc = "post") =>
         \A response \in TokenResponses : \A defined \in BOOLEAN :
           (GetUserTokenResponse(s, response, defined) /\ ~ops[s].retry
               /\ WantsCorrectAccess(response)) =>
               /\ ops'[s].op = "getUserToken" /\ ops'[s].retry
               /\ ops'[s].siteurl = WwwPrefixed(ops[s].siteurl)
               /\ ops'[s].pc \in {"getService", "post"}
               /\ ops'[s].pc = "post" =>
                     /\ Len(ops'[s].sent) = Len(ops[s].sent) + 1
                     /\ LET first == ops[s].sent[Len(ops[s].sent)]
                            second == ops'[s].sent[Len(ops'[s].sent)]
                        IN  /\ second.url = WwwPrefixed(ops[s].siteurl) \o <<"/login/token.php">>
                            /\ second.username = first.username
                            /\ second.password = first.password
      ]_vars

\* C14: a getUserToken call never has more than two credential posts behind
\* it, and a second post is the one of the retry, to the www. form of the URL
\* of the first; a requirecorrectaccess answer to the retry settles the call
\* (it rejects) with those two posts and sends nothing more.
C14_AtMostTwoPosts ==
    [][ \A s \in Slots :
           /\ (ops'[s].op = "getUserToken" /\ ops'[s] # ops[s]) =>
                 /\ Len(ops'[s].sent) <= 2
                 /\ \A i \in 1..Len(ops'[s].sent) : ops'[s].sent[i].method = "POST"
                 /\ Len(ops'[s].sent) = 2 =>
                       /\ ops'[s].retry
                       /\ \E u \in SiteURLs :
                             /\ ops'[s].sent[1].url = u \o <<"/login/token.php">>
                             /\ ops'[s].sent[2].url = WwwPrefixed(u) \o <<"/login/token.php">>
           /\ (ops[s].op = "getUserToken" /\ ops[s].pc = "post") =>
               \A response \in TokenResponses : \A defined \in BOOLEAN :
                 (GetUserTokenResponse(s, response, defined) /\ ops[s].retry
                     /\ WantsCorrectAccess(response)) =>
                     /\ ops'[s].op = "idle"
                     /\ event'.what = "rejected" /\ event'.sent = 2
      ]_vars

\* C14 witness: a call rejected on its retry, two posts after it began.
C14_Witness ==
    /\ event.op = "getUserToken" /\ event.what = "rejected"
    /\ event.retry /\ event.sent = 2
    /\ event.result = <<"Use the site's own address">>

\* C15 as claimed: a requirecorrectaccess answer to the retry makes the call
\* reject with the invalid-account error.
C15_RetryInvalidAccount ==
    [][ \A s \in Slots : (ops[s].op = "getUserToken" /\ ops[s].pc = "post") =>
         \A response \in TokenResponses : \A defined \in BOOLEAN :
           (GetUserTokenResponse(s, response, defined) /\ ops[s].retry
               /\ WantsCorrectAccess(response)) =>
               event'.what = "rejected" /\ event'.error = "mm.login.invalidaccount"
      ]_vars

\* C15, amended: a requirecorrectaccess answer to the retry makes the call
\* reject with the error message of that answer, not with the invalid-account
\* error.
C15_RetryServerMessage ==
    [][ \A s \in Slots : (ops[s].op = "getUserToken" /\ ops[s].pc = "post") =>
         \A response \in TokenResponses : \A defined \in BOOLEAN :
           (GetUserTokenResponse(s, response, defined) /\ ops[s].retry
               /\ WantsCorrectAccess(response)) =>
               /\ ops'[s].op = "idle"
               /\ event'.what = "rejected" /\ event'.error = "response.error"
               /\ event'.result = response.error
               /\ event'.error # "mm.login.invalidaccount"
      ]_vars

\* C15 witness: the retry was answered with the error, and the call rejected
\* with the server's message.
C15_Witness ==
    /\ event.op = "getUserToken" /\ event.retry
    /\ event.error = "response.error"
    /\ event.result = <<"Use the site's own address">>

\* C16 as claimed: a response with neither a token nor an error makes the
\* call reject with the unexpected-error kind.
C16_NeitherUnexpected ==
    [][ \A s \in Slots : (ops[s].op = "getUserToken" /\ ops[s].pc = "post") =>
         \A response \in TokenResponses : \A defined \in BOOLEAN :
           (GetUserTokenResponse(s, response, defined)
               /\ response.token = <<"undefined">> /\ response.error = <<"undefined">>) =>
               event'.what = "rejected" /\ event'.error = "mm.core.unexpectederror"
      ]_vars

\* C16, amended: a response with neither a token nor an error makes the call
\* reject with the invalid-account error, which is neither the server's
\* message of a login error nor the cannot-connect error.
C16_NeitherInvalidAccount ==
    [][ \A s \in Slots : (ops[s].op = "getUserToken" /\ ops[s].pc = "post") =>
         \A response \in TokenResponses : \A defined \in BOOLEAN :
           (GetUserTokenResponse(s, response, defined)
               /\ response.token = <<"undefined">> /\ response.error = <<"undefined">>) =>
               /\ ops'[s].op = "idle"
               /\ event'.what = "rejected" /\ event'.error = "mm.login.invalidaccount"
               /\ event'.error \notin {"response.error", "mm.core.cannotconnect",
                                       "mm.core.unexpectederror"}
      ]_vars

\* C16 witness: a call rejected with the invalid-account error.
C16_Witness ==
    /\ event.op = "getUserToken" /\ event.what = "rejected"
    /\ event.error = "mm.login.invalidaccount" /\ event.sent = 1

\* Whether a URL starts with https://.
StartsWithHttps(u) == Len(u) >= Len(Https) /\ SubSeq(u, 1, Len(Https)) = Https

\* Whether a URL contains ://localhost.
ContainsLocalhost(u) ==
    \E i \in 1..Len(u) :
        /\ i + 11 <= Len(u)
        /\ SubSeq(u, i, i + 11) = <<":", "/", "/", "l", "o", "c", "a", "l", "h", "o", "s", "t">>

\* The URLs of the existence probes an operation has sent, in their order.
ProbedURLs(op) ==
    LET heads == SelectSeq(op.sent, LAMBDA r : r.method = "HEAD")
    IN  [i \in 1..Len(heads) |-> SubSeq(heads[i].url, 1, Len(heads[i].url) - 1)]

\* C17: a checkSite called without a protocol preference has probed the
\* existence of the https form of the URL, or of the https form and then the
\* http form, and nothing else; it sends the second probe only in the step in
\* which the first one fails; when it resolves, it resolves with the URL it
\* probed last, the one that answered; and when the second probe fails it
\* rejects with the cannot-connect error.
C17_HttpsFirst ==
    [][ \A s \in Slots :
           /\ (ops'[s].op = "checkSite" /\ ops'[s].protocol = <<"undefined">>
                 /\ ops'[s] # ops[s]) =>
                 LET probed == ProbedURLs(ops'[s])
                 IN  /\ Len(probed) \in {1, 2}
                     /\ StartsWithHttps(probed[1])
                     /\ Len(probed) = 2 =>
                           ~StartsWithHttps(probed[2]) /\ probed[2] = SwapScheme(probed[1])
           /\ (ops[s].op = "checkSite" /\ ops[s].protocol = <<"undefined">>
                 /\ ops'[s] # ops[s]) =>
                 /\ Len(ProbedURLs(ops'[s])) > Len(ProbedURLs(ops[s])) =>
                       CheckSiteHeadFailed(s) /\ Len(ProbedURLs(ops[s])) = 1
                 /\ (ops'[s].op = "idle" /\ event'.what = "resolved") =>
                       event'.result = ProbedURLs(ops[s])[Len(ProbedURLs(ops[s]))]
                 /\ (CheckSiteHeadFailed(s) /\ Len(ProbedURLs(ops[s])) = 2) =>
                       /\ ops'[s].op = "idle"
                       /\ event'.what = "rejected" /\ event'.error = "mm.core.cannotconnect"
                 /\ (ops'[s].op = "idle" /\ event'.error = "mm.core.cannotconnect") =>
                       Len(ProbedURLs(ops[s])) = 2
      ]_vars

\* C17 witness: a checkSite without a protocol preference resolved with the
\* http form of the URL, after two existence probes.
C17_Witness ==
    /\ event.op = "checkSite" /\ event.what = "resolved"
    /\ event.protocol = <<"undefined">> /\ event.sent = 2
    /\ event.result = Http \o Host

\* C18 as claimed: a checkSite that rejects with the cannot-connect error has
\* sent two existence probes, the second to the other scheme of the first,
\* whichever scheme it tried first.
C18_RetryBothDirections ==
    [][ \A s \in Slots :
           (ops[s].op = "checkSite" /\ ops'[s].op = "idle"
               /\ event'.error = "mm.core.cannotconnect") =>
               /\ Len(ProbedURLs(ops[s])) = 2
               /\ ProbedURLs(ops[s])[2] = SwapScheme(ProbedURLs(ops[s])[1])
      ]_vars

\* C18, amended: when an existence probe of an https URL fails, checkSite
\* sends exactly one more probe, to the http form of that URL, and has sent
\* none before; when an existence probe of an http URL fails, whether it was
\* the first probe or the retry, checkSite sends no other probe and rejects
\* with the cannot-connect error.
C18_RetryFromHttpsOnly ==
    [][ \A s \in Slots :
           (ops[s].op = "checkSite" /\ ops[s].pc = "head" /\ CheckSiteHeadFailed(s)) =>
               LET probed == ProbedURLs(ops[s])
                   last == probed[Len(probed)]
               IN  IF StartsWithHttps(last)
                   THEN /\ Len(probed) = 1
                        /\ ops'[s].op = "checkSite" /\ ops'[s].pc = "head"
                        /\ ProbedURLs(ops'[s]) = <<last, SwapScheme(last)>>
                   ELSE /\ ops'[s].op = "idle"
                        /\ event'.what = "rejected"
                        /\ event'.error = "mm.core.cannotconnect"
      ]_vars

\* C18 witness: a checkSite that was told to use http rejected with the
\* cannot-connect error after one existence probe.
C18_Witness ==
    /\ event.op = "checkSite" /\ event.what = "rejected"
    /\ event.error = "mm.core.cannotconnect"
    /\ event.protocol = Http /\ event.sent = 1

\* C19: a checkSite of a URL that, with the protocol added if it was missing,
\* is not valid and does not contain ://localhost rejects with the
\* invalid-site error and starts no operation, so it sends no request; a
\* checkSite of a URL that contains ://localhost does not reject with the
\* invalid-site error and sends its existence probe; and a step that rejects
\* with the invalid-site error never follows a request.
C19_InvalidSite ==
    [][ /\ \A args \in CheckSiteArgs :
              (event'.op = "checkSite" /\ event'.what \in {"start", "rejected"}
                  /\ CheckSite(args[1], args[2])) =>
                  LET url == formatURL(args[1])
                  IN  /\ (~isValidURL(url) /\ ~ContainsLocalhost(url)) =>
                            /\ event'.what = "rejected"
                            /\ event'.error = "mm.login.invalidsite"
                            /\ ops' = ops
                      /\ ContainsLocalhost(url) =>
                            /\ event'.error # "mm.login.invalidsite"
                            /\ \E s \in Slots :
                                  /\ ops[s].op = "idle" /\ ops'[s].op = "checkSite"
                                  /\ Len(ProbedURLs(ops'[s])) = 1
        /\ event'.error = "mm.login.invalidsite" => ops' = ops
      ]_vars

\* C19 witness: a checkSite rejected with the invalid-site error while no
\* operation is running.
C19_Witness ==
    /\ event.op = "checkSite" /\ event.what = "rejected"
    /\ event.error = "mm.login.invalidsite" /\ event.sent = 0
    /\ \A s \in Slots : ops[s].op = "idle"

\* C20 as claimed: when the post of the capability check fails, and when its
\* response has no code field, checkSite resolves with code 0.
C20_ProbeNeverFails ==
    [][ \A s \in Slots :
           (/\ ops[s].op = "checkSite" /\ ops[s].pc = "probe"
            /\ \/ ProbeFailed(s)
               \/ \E response \in ProbeResponses :
                     response.code = <<"undefined">> /\ ProbeResponse(s, response)) =>
               event'.what = "resolved" /\ event'.code = 0
      ]_vars

\* C20, amended: when the post of the capability check fails, or the name of
\* the service cannot be read from the configuration, checkSite resolves
\* with code 0 and the URL it probed; when the response has no code field,
\* checkSite rejects with the unexpected-error kind.
C20_ProbeFailureModes ==
    [][ \A s \in Slots :
           /\ (/\ ops[s].op = "checkSite" /\ ops[s].pc \in {"probe", "getExtService"}
               /\ ProbeFailed(s) \/ CheckMobileLocalPlugin(s, FALSE)) =>
                 /\ event'.what = "resolved" /\ event'.code = 0
                 /\ event'.result = ops[s].siteurl
                 /\ UNCHANGED services
           /\ (ops[s].op = "checkSite" /\ ops[s].pc = "probe") =>
               \A response \in ProbeResponses :
                 (response.code = <<"undefined">> /\ ProbeResponse(s, response)) =>
                     /\ event'.what = "rejected"
                     /\ event'.error = "mm.core.unexpectederror"
                     /\ UNCHANGED services
      ]_vars

\* C20 witness: the post of the capability check failed and checkSite
\* resolved with code 0.
C20_Witness ==
    /\ event.op = "checkSite" /\ event.what = "resolved"
    /\ event.via = "error" /\ event.code = 0

\* C21: a response to the capability check that has the error flag set makes
\* checkSite reject with the maintenance error when its code is 1, with the
\* web-services-not-enabled error when it is 2 and with the
\* mobile-services-not-enabled error when it is 4 (three different errors),
\* and makes it resolve with code 0 when its code is 3.
C21_ProbeCodes ==
    [][ \A s \in Slots : (ops[s].op = "checkSite" /\ ops[s].pc = "probe") =>
         \A response \in ProbeResponses :
           (response.error /\ ProbeResponse(s, response)) =>
               /\ response.code = <<"1">> =>
                     event'.what = "rejected" /\ event'.error = "mm.login.siteinmaintenance"
               /\ response.code = <<"2">> =>
                     event'.what = "rejected" /\ event'.error = "mm.login.webservicesnotenabled"
               /\ response.code = <<"4">> =>
                     /\ event'.what = "rejected"
                     /\ event'.error = "mm.login.mobileservicesnotenabled"
               /\ response.code = <<"3">> =>
                     event'.what = "resolved" /\ event'.code = 0 /\ event'.error = ""
      ]_vars

\* C21 witness: the first check of a site resolved with code 0 on a response
\* to the capability check, and no service was kept: the response had the
\* error flag and code 3.
C21_Witness ==
    /\ event.op = "checkSite" /\ event.what = "resolved"
    /\ event.via = "success" /\ event.code = 0
    /\ DOMAIN services = {}

\* Whether preSets are given and have both a token and a site URL.
Complete(preSets) ==
    /\ preSets.defined
    /\ preSets.wstoken # <<"undefined">> /\ preSets.siteurl # <<"undefined">>

\* A call that has posted its one request and waits for the answer.
Posted(op, preSets) ==
    /\ op.op = "call" /\ op.pc = "post"
    /\ Len(op.sent) = 1 /\ op.sent[1].method = "POST"
    /\ op.sent[1].url =
          preSets.siteurl \o <<"/webservice/rest/server.php?moodlewsrestformat=json">>

\* C22: a call without preSets, without a token or without a site URL
\* rejects with the unexpected-error kind and starts no request; a call in
\* flight has sent one request and never sends another; when that request
\* fails, the call rejects with the cannot-connect error and is over.
C22_ConfigAndTransport ==
    [][ /\ event'.op = "call" =>
              \A preSets \in PreSets : \A network \in NetworkStates :
                  (~Complete(preSets) /\ Call(preSets, network)) =>
                      /\ event'.what = "rejected"
                      /\ event'.error = "mm.core.unexpectederror"
                      /\ ops' = ops
        /\ \A s \in Slots :
              /\ (ops'[s].op = "call" /\ ops'[s] # ops[s]) =>
                    ops[s].op = "idle" /\ Len(ops'[s].sent) = 1
              /\ (ops[s].op = "call" /\ CallFailed(s)) =>
                    /\ ops'[s].op = "idle"
                    /\ event'.what = "rejected" /\ event'.error = "mm.core.cannotconnect"
                    /\ event'.sent = 1
      ]_vars

\* C22 witness: a call rejected for missing settings while nothing is in
\* flight.
C22_Witness ==
    /\ event.op = "call" /\ event.what = "rejected"
    /\ event.error = "mm.core.unexpectederror"
    /\ \A s \in Slots : ops[s].op = "idle"

\* C23: a call with complete preSets rejects with the network error and
\* starts no request when the connectivity check says offline; when the
\* check says online and when it throws, the call does the same: it posts
\* its request and waits.
C23_Offline ==
    [][ event'.op = "call" =>
          \A preSets \in PreSets :
              Complete(preSets) =>
                  /\ Call(preSets, "offline") =>
                        /\ event'.what = "rejected"
                        /\ event'.error = "mm.core.networkerrormsg"
                        /\ ops' = ops
                  /\ \A network \in {"online", "throws"} :
                        Call(preSets, network) =>
                            /\ event'.what = "start" /\ event'.error = ""
                            /\ \E s \in Slots :
                                  /\ ops[s].op = "idle" /\ Posted(ops'[s], preSets)
                                  /\ ops'[s].responseExpected = preSets.responseExpected
                                  /\ \A t \in Slots \ {s} : ops'[t] = ops[t]
      ]_vars

\* C23 witness: a call went on after the connectivity check threw.
C23_Witness ==
    /\ event.op = "call" /\ event.what = "start" /\ event.via = "throws"
    /\ \E s \in Slots : ops[s].op = "call" /\ Len(ops[s].sent) = 1

\* C24: when the body of the response is empty or absent, a call that
\* expects no response resolves and a call that expects one rejects with the
\* error of an empty response.
C24_EmptyBody ==
    [][ \A s \in Slots : (ops[s].op = "call" /\ ops[s].pc = "post") =>
          \A body \in ResponseBodies :
              (body.empty /\ CallResponse(s, body)) =>
                  IF ops[s].responseExpected
                  THEN event'.what = "rejected" /\ event'.error = "mm.core.cannotconnect"
                  ELSE event'.what = "resolved"
      ]_vars

\* C25: a body with an exception makes the call reject, with the
\* lost-connection error exactly when its error code is invalidtoken or
\* accessexception and with the server's message otherwise; a body without
\* an exception but with debug information makes it reject with the server's
\* message; a body with neither makes it resolve.
C25_Payload ==
    [][ \A s \in Slots : (ops[s].op = "call" /\ ops[s].pc = "post") =>
          \A body \in ResponseBodies :
              (~body.empty /\ CallResponse(s, body)) =>
                  /\ body.exception =>
                        /\ event'.what = "rejected"
                        /\ event'.error = "mm.core.lostconnection"
                              <=> body.errorcode \in {"invalidtoken", "accessexception"}
                        /\ event'.error # "mm.core.lostconnection" => event'.error = "message"
                  /\ (~body.exception /\ body.debuginfo) =>
                        event'.what = "rejected" /\ event'.error = "Error. message"
                  /\ (~body.exception /\ ~body.debuginfo) =>
                        event'.what = "resolved" /\ event'.error = ""
      ]_vars

\* C25 witness: a call rejected with the lost-connection error after its one
\* request was answered.
C25_Witness ==
    /\ event.op = "call" /\ event.what = "rejected"
    /\ event.error = "mm.core.lostconnection" /\ event.sent = 1

\* C26 (as stated): getMoodleFilePath never ends in an error.
C26_NeverRejects == ~(event.op = "getMoodleFilePath" /\ event.what = "rejected")

\* C26 (amended): getMoodleFilePath is rejected only for an empty file
\* reference, for lack of a site id when no site is active, and when the
\* site record cannot be read; once the record is read it resolves with the
\* local reference of the file or with the remote download URL, also when the
\* download is skipped or fails.
C26_ResolvesOnceSiteFound ==
    [][ /\ (event'.op = "getMoodleFilePath" /\ event'.what = "rejected") =>
              \/ \E fileurl \in FileURLs, courseId \in CourseIds, siteId \in FileSiteIds :
                    /\ fileurl = <<>> \/ (siteId = Undefined /\ currentSite = {})
                    /\ GetMoodleFilePath(fileurl, courseId, siteId)
              \/ \E s \in Slots : ops[s].got = {} /\ FilePathSite(s)
        /\ \A s \in Slots :
              (ops[s].pc \in {"getFile", "download"} /\ ops'[s] # ops[s]) =>
                  \/ ops[s].pc = "getFile" /\ ops'[s].pc = "download"
                  \/ /\ ops'[s] = Idle
                     /\ event'.what = "resolved"
                     /\ event'.result \in {toInternalURL(ops[s].path), ops[s].downloadURL}
      ]_vars

\* A download failed and getMoodleFilePath resolved with the remote URL.
C26_Witness ==
    /\ event.op = "getMoodleFilePath" /\ event.what = "resolved" /\ event.via = "failed"
    /\ \E fileurl \in FileURLs \ {<<>>} :
          event.result = fixPluginfileURL(fileurl, StoredSite.token)

\* C27: getMoodleFilePath starts a download only when the file is not in the
\* file system and the device is online; offline without the file, every call
\* resolves with the same remote URL, fixed by the file reference and the
\* site, and starts no download; with the file it resolves with the local
\* reference and starts no download.
C27_DownloadOnlyOnline ==
    [][ \A s \in Slots :
          (ops[s].pc = "getFile" /\ ops'[s] # ops[s]) =>
              /\ files' = files
              /\ ops'[s].pc = "download" =>
                    ops[s].path \notin files /\ event'.via = "online"
              /\ ops[s].path \in files =>
                    /\ ops'[s] = Idle
                    /\ event'.what = "resolved"
                    /\ event'.result = toInternalURL(ops[s].path)
              /\ (ops[s].path \notin files /\ event'.via = "offline") =>
                    /\ ops'[s] = Idle
                    /\ event'.what = "resolved"
                    /\ \E site \in dbGet(sitesStore, ops[s].siteid) :
                          event'.result = fixPluginfileURL(ops[s].fileurl, site.token)
      ]_vars

\* Offline, a call for a file that is not in the file system resolved with
\* the remote URL, after an earlier call had downloaded another file.
C27_Witness ==
    /\ event.op = "getMoodleFilePath" /\ event.what = "resolved" /\ event.via = "offline"
    /\ files # {}
    /\ \E fileurl \in FileURLs \ {<<>>} :
          /\ event.result = fixPluginfileURL(fileurl, StoredSite.token)
          /\ \A courseId \in {<<"1">>, <<"7">>} :
                filePath(fileurl, courseId, StoredSite.id) \notin files

\* C28: deleteSite(siteId) takes the record of that id out of the sites store
\* only when $mmSite.deleteSite, which deletes the data of the site, has
\* succeeded; when that fails the record stays and the caller gets the
\* failure; the records of other ids are left as they are.
C28_DeleteAfterCascade ==
    [][ /\ (event'.op = "deleteSite" /\ event'.what = "start") => sitesStore' = sitesStore
        /\ \A s \in Slots :
              (ops[s].op = "deleteSite" /\ ops'[s] # ops[s]) =>
                  /\ event'.op = "deleteSite"
                  /\ \/ /\ event'.what = "resolved"
                        /\ dbGet(sitesStore', ops[s].siteid) = {}
                     \/ /\ event'.what = "rejected" /\ event'.error # ""
                        /\ dbGet(sitesStore', ops[s].siteid) = dbGet(sitesStore, ops[s].siteid)
                  /\ \A id \in SiteIds \ {ops[s].siteid} :
                        dbGet(sitesStore', id) = dbGet(sitesStore, id)
      ]_vars

\* deleteSite took a stored record out and left the record of another site.
C28_Witness ==
    /\ event.op = "deleteSite" /\ event.what = "resolved" /\ event.had
    /\ dbGet(sitesStore, event.result) = {}
    /\ sitesStore # {}

\* deleteSite failed and the record is still stored.
C28_WitnessFailed ==
    /\ event.op = "deleteSite" /\ event.what = "rejected" /\ event.had
    /\ dbGet(sitesStore, event.result) # {}

\* The http form and the https form of a site URL.
HttpForm(u) == IF StartsWithHttps(u) THEN SwapScheme(u) ELSE u

HttpsForm(u) == IF StartsWithHttps(u) THEN u ELSE SwapScheme(u)

\* Whether getUserToken looks for the service of its site in this step of
\* slot s: it is called, or it calls itself for the canonical host.
ChoosesService(s) ==
    /\ ops'[s].op = "getUserToken"
    /\ ops[s] = Idle \/ (ops[s].pc = "post" /\ ~ops[s].retry /\ ops'[s].retry)

\* The service of the last request of an operation.
LastService(op) == op.sent[Len(op.sent)].service

\* C29: getUserToken requests the service kept for the http form of the site
\* URL if there is one, else the service kept for the https form if there is
\* one, else the configured default service, which it reads only then; so a
\* service kept under either scheme is requested for both schemes of the host.
C29_ServicePrecedence ==
    [][ \A s \in Slots :
          /\ ChoosesService(s) =>
                LET siteurl == ops'[s].siteurl
                IN  IF HttpForm(siteurl) \in DOMAIN services
                    THEN /\ ops'[s].pc = "post"
                         /\ LastService(ops'[s]) = services[HttpForm(siteurl)]
                    ELSE IF HttpsForm(siteurl) \in DOMAIN services
                    THEN /\ ops'[s].pc = "post"
                         /\ LastService(ops'[s]) = services[HttpsForm(siteurl)]
                    ELSE /\ ops'[s].pc = "getService"
                         /\ ops'[s].sent = ops[s].sent
          /\ (ops[s].pc = "getService" /\ ops'[s].pc = "post") =>
                LastService(ops'[s]) = WsService
      ]_vars

\* A token is requested for the http form of a site with the service that is
\* kept for its https form only.
C29_Witness ==
    /\ DOMAIN services = {Https \o Host}
    /\ \E s \in Slots :
          /\ ops[s].op = "getUserToken" /\ ops[s].pc = "post"
          /\ ops[s].siteurl = Http \o Host
          /\ LastService(ops[s]) = services[Https \o Host]
          /\ LastService(ops[s]) # WsService

\* C30: when the capability check of a site succeeds with code 0 and without
\* the error flag, the service that was checked is kept for the URL that was
\* checked, and a getUserToken for a URL with a service kept requests that
\* service and not the configured default.
C30_ProbedServiceCached ==
    [][ \A s \in Slots :
          /\ ( /\ ops[s].op = "checkSite" /\ ops[s].pc = "probe"
               /\ event'.op = "checkSite" /\ event'.what = "resolved"
               /\ event'.via = "success" /\ event'.code = 0
               /\ ProbeResponse(s, [code |-> <<"0">>, error |-> FALSE]) ) =>
                /\ ops[s].siteurl \in DOMAIN services'
                /\ services'[ops[s].siteurl] = ops[s].service
                /\ LastService(ops[s]) = ops[s].service
          /\ ( /\ ops[s] = Idle /\ ops'[s].op = "getUserToken"
               /\ ops'[s].siteurl \in DOMAIN services ) =>
                /\ ops'[s].pc = "post"
                /\ LastService(ops'[s]) = services[ops'[s].siteurl]
                /\ LastService(ops'[s]) # WsService
      ]_vars

\* After a capability check of the https form of a site succeeded, a token is
\* requested for that URL with the service that was checked.
C30_Witness ==
    /\ Https \o Host \in DOMAIN services
    /\ \E s \in Slots :
          /\ ops[s].op = "getUserToken" /\ ops[s].pc = "post"
          /\ ops[s].siteurl = Https \o Host
          /\ LastService(ops[s]) = WsExtService

\* Whether a text is the string form of a value that is not a container.
IsStringForm(text, value) ==
    CASE value.t = "number" -> Len(text) > 0 /\ text[1] # "0" /\ parseInt(text) = value.n
      [] value.t = "boolean" -> text = (IF value.b THEN <<"t", "r", "u", "e">>
                                        ELSE <<"f", "a", "l", "s", "e">>)
      [] value.t = "null" -> text = <<"n", "u", "l", "l">>
      [] value.t = "string" -> text = value.s
      [] OTHER -> FALSE

RECURSIVE Stringified(_, _)
\* Whether result has the structure of original (arrays for arrays, objects
\* for objects, the same keys in the same nesting) with a string in the place
\* of every value that is not a container, the string form of that value.
Stringified(original, result) ==
    /\ result.t = original.t
    /\ Len(result.kids) = Len(original.kids)
    /\ \A i \in 1..Len(original.kids) :
          /\ result.kids[i].k = original.kids[i].k
          /\ IF original.kids[i].v.t \in {"array", "object"}
             THEN Stringified(original.kids[i].v, result.kids[i].v)
             ELSE /\ result.kids[i].v.t = "string"
                  /\ IsStringForm(result.kids[i].v.s, original.kids[i].v)

\* The body of a request without the function and the token, its last two
\* properties.
Converted(body) == [body EXCEPT !.kids = SubSeq(@, 1, Len(@) - 2)]

\* C31: the body $mmWS.call posts is the arguments object with every value
\* that is not a container, at any depth, replaced by its string form, arrays
\* still arrays and objects still objects with the same keys and nesting;
\* converting it again changes nothing, and the caller's arguments object is
\* left as it was.
C31_ConvertValuesToString ==
    [][ (event'.op = "call" /\ event'.what = "start") =>
          /\ Stringified(data, Converted(ajaxData'))
          /\ convertValuesToString(Converted(ajaxData')) = Converted(ajaxData')
          /\ convertValuesToString(convertValuesToString(data)) = convertValuesToString(data)
          /\ data' = data
      ]_vars

\* A call was posted whose arguments hold the number 12 in an array inside
\* an object; the body holds the string 12 there.
C31_Witness ==
    /\ event.op = "call" /\ event.what = "start"
    /\ data.t = "object" /\ ajaxData.t = "object"
    /\ \E i \in 1..Len(data.kids) :
          /\ data.kids[i].v.t = "array"
          /\ \E j \in 1..Len(data.kids[i].v.kids) :
                /\ data.kids[i].v.kids[j].v = Number(12)
                /\ ajaxData.kids[i].v.kids[j].v = String(<<"1", "2">>)

\* C32: whenever the current-site store holds the pointer, the sites store
\* holds the record of the site it points to.
C32_PointerNeverDangles ==
    \A current_site \in currentStore : dbGet(sitesStore, current_site.siteid) # {}

\* C33: a getUserToken whose requests all get their answer settles in the
\* end: its operation does not stay in flight for ever.
C33_TokenSettles ==
    \A s \in Slots : (ops[s].op = "getUserToken") ~> (ops[s].op # "getUserToken")

\* C34: when logout has just completed while a loadSite or a restoreSession
\* was pending, and the pending operations then finish, the current-site
\* store holds no pointer and no site is active.
C34_LogoutFinal ==
    [][ ( /\ event.op = "logout"
          /\ \E s \in Slots : ops[s].op \in {"loadSite", "restoreSession"}
          /\ \A s \in Slots : ops'[s] = Idle ) =>
            currentStore' = {} /\ currentSite' = {}
      ]_vars

\* C35: the services kept in memory change only in a step in which the
\* capability check gets a response that has a code and no error flag: a
\* failed post, a failed read of the service name, a response without a
\* code and a response with the error flag leave every entry as it is, and
\* so does every step of getUserToken, newSite, loadSite, logout and
\* deleteSite.
C35_CacheFrame ==
    [][ /\ services' # services =>
              \E s \in Slots :
                  /\ ops[s].op = "checkSite" /\ ops[s].pc = "probe"
                  /\ \E response \in ProbeResponses :
                        /\ ~response.error /\ response.code # Undefined
                        /\ ProbeResponse(s, response)
        /\ \A s \in Slots : (ops[s].op = "checkSite" /\ ops'[s] # ops[s]) =>
              /\ ProbeFailed(s) => services' = services
              /\ CheckMobileLocalPlugin(s, FALSE) => services' = services
              /\ \A response \in ProbeResponses :
                    ((response.error \/ response.code = Undefined)
                        /\ ProbeResponse(s, response)) => services' = services
        /\ event'.op \in {"getUserToken", "newSite", "loadSite", "logout", "deleteSite", "db"} =>
              services' = services
      ]_vars

\* With a service kept for a site, a capability check of it was answered
\* with the error flag, and the entry is still there.
C35_Witness ==
    /\ event.op = "checkSite" /\ event.what = "rejected" /\ event.via = "success"
    /\ event.error = "mm.login.siteinmaintenance"
    /\ DOMAIN services # {}

\* C36: a newSite that the SSO handler starts after it accepted a callback
\* has a token that is neither undefined nor empty.
C36_AcceptedHasToken ==
    \A s \in Slots :
        (ops[s].op = "newSite" /\ ops[s].via = "sso") =>
            ops[s].token # Undefined /\ ops[s].token # <<>>

====
